---- MODULE Spec2Model ----
(***************************************************************************)
(* FastMatch backend: resume ingestion (save, extract, parse), the mapping *)
(* of the LLM's decoded JSON reply into ParsedResumeData, the creation of  *)
(* job-targeted versions, and the cleaning of the LLM's reply text.        *)
(*                                                                         *)
(* Eight specifications share the module:                                  *)
(*   SpecParse   : ParsingService.parse as a function of the Gateway       *)
(*                 outcome and the raw text, over bounded JSON values.     *)
(*   Spec        : ResumeService.create_base_resume_from_upload, one       *)
(*                 request after another, stepping through its I/O points. *)
(*   SpecVersion : ResumeService.create_custom_version with the session of *)
(*                 get_db, and the GET endpoints reading committed rows.   *)
(*   SpecClean   : GeminiClient.generate_json on bounded reply texts.      *)
(*   SpecGateway : Settings, create_llm_client and one generate_json call  *)
(*                 with the backend replying, failing or staying silent;   *)
(*                 FairSpecGateway adds the fairness of the program steps. *)
(*   SpecStorage : IngestionService.save_file, calls interleaved at their  *)
(*                 awaits.                                                 *)
(*   SpecLifecycle : the uploads of Spec, each followed by requests for    *)
(*                 the id the upload returned.                             *)
(*   SpecCalls   : uploads and version creations one after another, for    *)
(*                 the Gateway calls each request makes.                   *)
(***************************************************************************)
EXTENDS Integers, Sequences, FiniteSets, TLC

\* ------------------------------------------------------------------ bounds
MaxSections == 3        \* longest `sections` array the Gateway returns (SpecParse)
MaxIngestSections == 1  \* longest `sections` array the Gateway returns (Spec)
MaxRequests == 2        \* uploads handled by one service instance (Spec)
MaxVersionSections == 2 \* longest customized `sections` array (SpecVersion)
MaxVersionRequests == 1 \* version-creation requests handled (SpecVersion)
MaxStringLen == 1       \* longest JSON string inside a reply text (SpecClean)
MaxWait == 2            \* time units the clock counts while a call waits (SpecGateway)
MaxSaves == 2           \* save_file calls in flight or finished (SpecStorage)

\* ------------------------------------------------------- decoded JSON values
\* What json.loads can return.  Python's None is JNull.
JNull == [kind |-> "null"]
JBool(b) == [kind |-> "bool", b |-> b]
JNum(n) == [kind |-> "num", n |-> n]
JStr(s) == [kind |-> "str", s |-> s]
JList(items) == [kind |-> "list", items |-> items]
JDict(fields) == [kind |-> "dict", fields |-> fields]

\* A dict with no key at all: the function with the empty domain.
EmptyFields == [k \in {} |-> JNull]

\* isinstance(v, dict) and isinstance(v, list)
IsDict(v) == v.kind = "dict"
IsList(v) == v.kind = "list"

\* "key" in d, and d.get(key, default), for a dict d
HasKey(d, key) == key \in DOMAIN d.fields
DictGet(d, key, default) == IF HasKey(d, key) THEN d.fields[key] ELSE default

\* Python truthiness of a decoded JSON value (None, False, 0, "", [], {} are falsy)
Truthy(v) ==
    CASE v.kind = "null" -> FALSE
      [] v.kind = "bool" -> v.b
      [] v.kind = "num" -> v.n # 0
      [] v.kind = "str" -> v.s # ""
      [] v.kind = "list" -> Len(v.items) > 0
      [] v.kind = "dict" -> DOMAIN v.fields # {}

\* len(v) is defined for str, list and dict and raises TypeError otherwise
HasLen(v) == v.kind \in {"str", "list", "dict"}

\* --------------------------------------------------- the universe of replies
\* Elements of a `sections` array that are objects: every key may be absent,
\* and title may be an explicit null.
ItemKeys == {"title", "content", "raw_content"}

TitleValue == JStr("Experience")
ContentValue == JStr("Dev")
RawContentValue == JStr("Experience:\n- Dev")

DictItems ==
    { JDict(EmptyFields),
      JDict([title |-> TitleValue]),
      JDict([raw_content |-> RawContentValue]),
      JDict([title |-> JNull, content |-> ContentValue]),
      JDict([content |-> ContentValue, raw_content |-> RawContentValue]),
      JDict([title |-> TitleValue, content |-> ContentValue, raw_content |-> RawContentValue]) }

\* Elements that are not objects: a string, a number, null, an array.
NonDictItems == { JStr("garbage"), JNum(3), JNull, JList(<<>>) }

Items == DictItems \cup NonDictItems

SeqsUpTo(S, n) == UNION { [1..m -> S] : m \in 0..n }

\* Values of the `sections` key that are not arrays.
NonListSections ==
    { JNull, JBool(FALSE), JBool(TRUE), JNum(0), JNum(5), JStr(""), JStr("text"),
      JDict(EmptyFields), JDict([title |-> JStr("Experience")]) }

SectionsValues(n) == NonListSections \cup { JList(s) : s \in SeqsUpTo(Items, n) }

\* Top-level objects: with or without `sections`, with or without another key.
DictResponses(n) ==
    { JDict([sections |-> sv]) : sv \in SectionsValues(n) }
    \cup { JDict([sections |-> sv, language |-> JStr("en")]) : sv \in SectionsValues(n) }
    \cup { JDict(EmptyFields), JDict([invalid |-> JStr("structure")]) }

\* Top-level values that are not objects.
NonDictResponses ==
    { JNull, JNum(1), JStr("text"), JBool(TRUE), JList(<<>>),
      JList(<<JDict([title |-> JStr("Experience")])>>) }

Responses(n) == DictResponses(n) \cup NonDictResponses

\* What the Gateway's generate_json can raise: its own ValueError on undecodable
\* text, or an error of the backend call.
GatewayErrors == {"ValueError", "APIError"}

\* -------------------------------------------------- outcomes of a Python call
Raised(e) == [ok |-> FALSE, exc |-> e]
Returned(v) == [ok |-> TRUE, value |-> v]

GatewayOutcomes(n) == { Raised(e) : e \in GatewayErrors } \cup { Returned(v) : v \in Responses(n) }

\* Texts the extractor hands to the parser.
RawTexts == { "Experience:\n- Dev", "" }

\* ---------------------------------------------------------- domain models
\* Variant of Section: content falls back to raw_content when it is null.
Section_content_fallback(title, content, raw_content, order) ==
    [title |-> title,
     content |-> IF content = JNull THEN raw_content ELSE content,
     raw_content |-> raw_content,
     order |-> order]

\* Section(title=..., content=..., raw_content=..., order=...): a dataclass, the
\* values are stored as given.
Section(title, content, raw_content, order) ==
    [title |-> title, content |-> content, raw_content |-> raw_content, order |-> order]

ParsedResumeData(raw_text, sections, meta) ==
    [raw_text |-> raw_text, sections |-> sections, meta |-> meta]

\* ------------------------------------------------------------ parsing/utils
\* Variant of the loop: enumerate(sections_data, 1), orders start at one.
RECURSIVE map_items_one_based(_, _, _)
map_items_one_based(sections_data, idx, acc) ==
    IF idx >= Len(sections_data) THEN acc
    ELSE LET item == sections_data[idx + 1]
         IN IF ~IsDict(item)
            THEN map_items_one_based(sections_data, idx + 1, acc)
            ELSE map_items_one_based(sections_data, idx + 1,
                     Append(acc, Section(DictGet(item, "title", JNull),
                                         DictGet(item, "content", JNull),
                                         DictGet(item, "raw_content", JNull),
                                         idx + 1)))

\* Variant of the loop: order=len(sections), the position among kept sections.
RECURSIVE map_items_renumbered(_, _, _)
map_items_renumbered(sections_data, idx, acc) ==
    IF idx >= Len(sections_data) THEN acc
    ELSE LET item == sections_data[idx + 1]
         IN IF ~IsDict(item)
            THEN map_items_renumbered(sections_data, idx + 1, acc)
            ELSE map_items_renumbered(sections_data, idx + 1,
                     Append(acc, Section(DictGet(item, "title", JNull),
                                         DictGet(item, "content", JNull),
                                         DictGet(item, "raw_content", JNull),
                                         Len(acc))))

\* The loop over enumerate(sections_data): idx is the zero-based index of the
\* next element, acc the sections appended so far.
RECURSIVE map_items(_, _, _)
map_items(sections_data, idx, acc) ==
    IF idx >= Len(sections_data) THEN acc
    ELSE LET item == sections_data[idx + 1]
         IN IF ~IsDict(item)
            THEN map_items(sections_data, idx + 1, acc)
            ELSE map_items(sections_data, idx + 1,
                     Append(acc, Section(DictGet(item, "title", JNull),
                                         DictGet(item, "content", JNull),
                                         DictGet(item, "raw_content", JNull),
                                         idx)))

\* llm_response.get("sections") or []
sections_or_empty(llm_response) ==
    LET got == DictGet(llm_response, "sections", JNull)
    IN IF Truthy(got) THEN got ELSE JList(<<>>)

\* Variant of the mapping: meta keeps only the sections value, not the reply.
map_llm_response_meta_sections_only(llm_response, raw_text) ==
    IF ~IsDict(llm_response)
    THEN Raised("ValueError")
    ELSE LET sections_data == sections_or_empty(llm_response)
             sections == IF IsList(sections_data)
                         THEN map_items(sections_data.items, 0, <<>>)
                         ELSE <<>>
         IN Returned(ParsedResumeData(raw_text, sections, [llm_raw |-> sections_data]))

map_llm_response_to_parsed_data(llm_response, raw_text) ==
    IF ~IsDict(llm_response)
    THEN Raised("ValueError")
    ELSE LET sections_data == sections_or_empty(llm_response)
             sections == IF IsList(sections_data)
                         THEN map_items(sections_data.items, 0, <<>>)
                         ELSE <<>>
         IN Returned(ParsedResumeData(raw_text, sections, [llm_raw |-> llm_response]))

\* ---------------------------------------------------------- parsing/service
\* The argument of the debug log between the Gateway call and the mapping:
\* len(llm_response.get("sections", [])).
log_sections_count(llm_response) ==
    IF ~IsDict(llm_response) THEN Raised("AttributeError")
    ELSE LET got == DictGet(llm_response, "sections", JList(<<>>))
         IN IF HasLen(got) THEN Returned(JNull) ELSE Raised("TypeError")

\* Variant of parse: a reply that is not an object degrades to zero sections.
parse_lenient_top_level(gateway, raw_text) ==
    IF ~gateway.ok THEN Raised(gateway.exc)
    ELSE IF ~IsDict(gateway.value)
    THEN Returned(ParsedResumeData(raw_text, <<>>, [llm_raw |-> gateway.value]))
    ELSE LET logged == log_sections_count(gateway.value)
         IN IF ~logged.ok THEN Raised(logged.exc)
            ELSE map_llm_response_to_parsed_data(gateway.value, raw_text)

\* ParsingService.parse, given what the one Gateway call did.
parse(gateway, raw_text) ==
    IF ~gateway.ok THEN Raised(gateway.exc)
    ELSE LET logged == log_sections_count(gateway.value)
         IN IF ~logged.ok THEN Raised(logged.exc)
            ELSE map_llm_response_to_parsed_data(gateway.value, raw_text)

\* ------------------------------------------------------- uploaded files
\* File names are sequences of characters, so that Path(...).name, .suffix and
\* .lower() are computed rather than assumed.
FN_pdf == <<"c", "v", ".", "p", "d", "f">>
FN_PDF == <<"C", "V", ".", "P", "D", "F">>
FN_docx == <<"c", "v", ".", "d", "o", "c", "x">>
FN_txt == <<"c", "v", ".", "t", "x", "t">>
FN_noext == <<"c", "v">>
FN_none == <<>>                       \* UploadFile.filename is None or ""
FN_unknown == <<"u", "n", "k", "n", "o", "w", "n">>

Filenames == { FN_pdf, FN_PDF, FN_docx, FN_txt, FN_noext, FN_none }

CT_pdf == "application/pdf"
CT_docx == "application/vnd.openxmlformats-officedocument.wordprocessingml.document"
CT_text == "text/plain"
CT_none == "<None>"                   \* UploadFile.content_type is None
CT_octet == "application/octet-stream"

ContentTypes == { CT_pdf, CT_docx, CT_text, CT_none }

\* The payload: which library can read it, and the text it holds.
FileBytes ==
    { [format |-> "pdf", text |-> "Experience:\n- Dev"],
      [format |-> "docx", text |-> ""],
      [format |-> "junk", text |-> ""] }

Uploads == [filename : Filenames, content_type : ContentTypes, file_bytes : FileBytes]

\* str.lower() on the characters that occur
LowerChar(ch) ==
    CASE ch = "C" -> "c" [] ch = "V" -> "v" [] ch = "P" -> "p"
      [] ch = "D" -> "d" [] ch = "F" -> "f" [] OTHER -> ch
Lower(str) == [i \in 1..Len(str) |-> LowerChar(str[i])]

\* Index of the last occurrence of ch in str, 0 when there is none (str.rfind + 1)
RECURSIVE RFind(_, _, _)
RFind(str, ch, i) ==
    IF i = 0 THEN 0 ELSE IF str[i] = ch THEN i ELSE RFind(str, ch, i - 1)

\* PurePath.name: the final path component
PathName(str) == SubSeq(str, RFind(str, "/", Len(str)) + 1, Len(str))

\* PurePath.suffix: from the last dot of the name, unless the dot is the first
\* or the last character
PathSuffix(str) ==
    LET name == PathName(str)
        i == RFind(name, ".", Len(name))
    IN IF 1 < i /\ i < Len(name) THEN SubSeq(name, i, Len(name)) ELSE <<>>

\* file.filename or "unknown"
filename_or_unknown(filename) == IF filename = <<>> THEN FN_unknown ELSE filename

\* ------------------------------------------- integrations/file_extractors
\* PdfFileTextExtractor.extract / DocxFileTextExtractor.extract: the library
\* raises on a payload it cannot read.
pdf_extract(file_bytes) ==
    IF file_bytes.format = "pdf" THEN Returned(file_bytes.text) ELSE Raised("PdfReadError")
docx_extract(file_bytes) ==
    IF file_bytes.format = "docx" THEN Returned(file_bytes.text) ELSE Raised("PackageNotFoundError")

\* Variant of extract: an unrecognised file is handed to the PDF extractor.
extract_default_pdf(file_bytes, filename, content_type) ==
    LET extension == Lower(PathSuffix(filename))
    IN IF extension = <<".", "d", "o", "c", "x">> THEN docx_extract(file_bytes)
       ELSE IF content_type = CT_docx THEN docx_extract(file_bytes)
       ELSE pdf_extract(file_bytes)

\* Variant of extract: the content type is consulted before the extension.
extract_content_type_first(file_bytes, filename, content_type) ==
    LET extension == Lower(PathSuffix(filename))
    IN IF content_type = CT_pdf THEN pdf_extract(file_bytes)
       ELSE IF content_type = CT_docx THEN docx_extract(file_bytes)
       ELSE IF extension = <<".", "p", "d", "f">> THEN pdf_extract(file_bytes)
       ELSE IF extension = <<".", "d", "o", "c", "x">> THEN docx_extract(file_bytes)
       ELSE Raised("UnsupportedFileFormatError")

\* FileExtractorClient.extract
extract(file_bytes, filename, content_type) ==
    LET extension == Lower(PathSuffix(filename))
    IN IF extension = <<".", "p", "d", "f">> THEN pdf_extract(file_bytes)
       ELSE IF extension = <<".", "d", "o", "c", "x">> THEN docx_extract(file_bytes)
       ELSE IF content_type = CT_pdf THEN pdf_extract(file_bytes)
       ELSE IF content_type = CT_docx THEN docx_extract(file_bytes)
       ELSE Raised("UnsupportedFileFormatError")

\* ----------------------------------------------------- ingestion/service
\* IngestionService.extract_text: logs and re-raises whatever extract raised.
extract_text(file_bytes, filename, content_type) == extract(file_bytes, filename, content_type)

\* IngestionService.save_file when the write succeeds: the locator it returns
\* (a fresh id plus the lower-cased suffix of the base name).
save_file_path(file_id, filename) ==
    [dir |-> "storage/resumes", file_id |-> file_id, ext |-> Lower(PathSuffix(PathName(filename)))]

\* Path.__truediv__: the components of base_dir / name; a name holding
\* slashes contributes one component per segment.
RECURSIVE PathJoin(_, _)
PathJoin(base_dir, name) ==
    LET i == RFind(name, "/", Len(name))
    IN IF i = 0
       THEN Append(base_dir, name)
       ELSE Append(PathJoin(base_dir, SubSeq(name, 1, i - 1)), SubSeq(name, i + 1, Len(name)))

\* Variant of target_path: the on-disk name is the name the caller gave.
target_path_trusting_name(base_dir, file_id, filename) == PathJoin(base_dir, filename)

\* IngestionService.save_file up to target_path: the base name of the
\* caller's name gives only its lower-cased suffix; the name on disk is the
\* text of a fresh UUID followed by that suffix.
target_path(base_dir, file_id, filename) ==
    LET safe_name == PathName(filename)
        ext == Lower(PathSuffix(safe_name))
        disk_name == <<file_id>> \o ext
    IN PathJoin(base_dir, disk_name)

\* ------------------------------------------------------ resumes/service
NoneValue == [kind |-> "None"]

\* BaseResume.create
BaseResume_create(id, filename, content_type, file_path, parsed_data) ==
    [id |-> id, filename |-> filename, content_type |-> content_type,
     file_path |-> file_path, parsed_data |-> parsed_data]

ParseWarning == "Failed to parse resume. Parsed data is not available."

\* Variant of steps 3 and 4: the failure is logged but no warning is appended.
resume_from_parse_no_warning(parsed, id, upload, path) ==
    [kind |-> "returned",
     resume |-> BaseResume_create(id, filename_or_unknown(upload.filename),
                   IF upload.content_type = CT_none THEN CT_octet ELSE upload.content_type,
                   path, IF parsed.ok THEN parsed.value ELSE NoneValue),
     warnings |-> <<>>]

\* Steps 3 and 4 of create_base_resume_from_upload: the try around parse and
\* the construction of the result, given what parse did.
resume_from_parse(parsed, id, upload, path) ==
    LET parsed_data == IF parsed.ok THEN parsed.value ELSE NoneValue
        warnings == IF parsed.ok THEN <<>> ELSE <<ParseWarning>>
    IN [kind |-> "returned",
        resume |-> BaseResume_create(id, filename_or_unknown(upload.filename),
                      IF upload.content_type = CT_none THEN CT_octet ELSE upload.content_type,
                      path, parsed_data),
        warnings |-> warnings]

\* raise HTTPException(status_code=...), and any other exception
HTTPException(status_code) == [kind |-> "raised", exc |-> "HTTPException", status |-> status_code]
Propagated(e) == [kind |-> "raised", exc |-> e, status |-> 0]
NoOutcome == [kind |-> "none"]

\* ------------------------------------------------------- resumes/router
\* SectionSchema.model_validate: every field must be a string or null.
schema_valid(section) ==
    \A k \in ItemKeys : section[k].kind \in {"str", "null"}

SectionSchema(section) ==
    [title |-> section.title, content |-> section.content, raw_content |-> section.raw_content]

\* upload_resume: what the endpoint answers, given what the service did.
upload_resume(result) ==
    IF result.kind = "returned"
    THEN LET pd == result.resume.parsed_data
             valid == IF pd = NoneValue THEN <<>> ELSE SelectSeq(pd.sections, schema_valid)
         IN [status |-> 201,
             sections |-> [i \in 1..Len(valid) |-> SectionSchema(valid[i])],
             warnings |-> result.warnings]
    ELSE IF result.exc = "HTTPException"
    THEN [status |-> result.status, sections |-> <<>>, warnings |-> <<>>]
    ELSE [status |-> 500, sections |-> <<>>, warnings |-> <<>>]

NoResponse == [status |-> 0, sections |-> <<>>, warnings |-> <<>>]

\* ------------------------------------------- persistence: rows and tables
\* The resumes table with the rows of ResumeSectionModel, whose text columns
\* are nullable: resume 1 has two sections, resume 2 has none, resume 3 has
\* one section whose three text columns are NULL; id 4 is not stored.
StoredResumes ==
    [id \in {1, 2, 3} |->
        [id |-> id,
         sections |-> CASE id = 1 -> << Section(TitleValue, ContentValue, RawContentValue, 0),
                                       Section(JNull, JNull, RawContentValue, 1) >>
                        [] id = 2 -> <<>>
                        [] id = 3 -> << Section(JNull, JNull, JNull, 0) >>]]

ResumeIds == {1, 2, 3, 4}
JobDescriptions == {"Python developer"}

\* ResumeVersionModel(id, resume_id, job_description, cover_letter)
ResumeVersionModel(id, resume_id, job_description, cover_letter) ==
    [id |-> id, resume_id |-> resume_id, job_description |-> job_description,
     cover_letter |-> cover_letter]

\* The section row create_version builds from the item at zero-based idx;
\* the field idx records the array position and is not a column.
ResumeVersionSectionModel(version_id, section_data, idx) ==
    [version_id |-> version_id,
     title |-> DictGet(section_data, "title", JNull),
     content |-> DictGet(section_data, "content", JNull),
     raw_content |-> DictGet(section_data, "raw_content", JNull),
     order |-> DictGet(section_data, "order", JNum(idx)),
     idx |-> idx]

\* The tables create_version writes, empty.  built_from is not a table: it
\* keeps, per version row, the length of the list the version was built from.
NoRows == [versions |-> <<>>, sections |-> <<>>, built_from |-> <<>>]

\* uuid.uuid4(): an id no committed version row carries.
fresh_id(tables) == Len(tables.versions) + 1

\* ResumeRepository.get_by_id
repository_get_by_id(resumes, resume_id) ==
    IF resume_id \in DOMAIN resumes THEN resumes[resume_id] ELSE NoneValue

\* Length of the longest prefix of custom_sections made of objects only: the
\* loop of create_version stops at the first item without a .get method.
RECURSIVE dict_prefix(_, _)
dict_prefix(custom_sections, n) ==
    IF n < Len(custom_sections) /\ IsDict(custom_sections[n + 1])
    THEN dict_prefix(custom_sections, n + 1)
    ELSE n

\* The rows the loop of create_version adds to the session, item by item.
section_rows(version_id, custom_sections, n) ==
    [i \in 1..n |-> ResumeVersionSectionModel(version_id, custom_sections[i], i - 1)]

\* The orderings relationship("sections", order_by=order) may load rows in:
\* every arrangement with non-decreasing order; rows with equal order come in
\* an order the database chooses.
OrderedLoads(rows) ==
    { [i \in 1..Len(rows) |-> rows[p[i]]] :
        p \in { q \in [1..Len(rows) -> 1..Len(rows)] :
                  /\ \A i, j \in 1..Len(rows) : i # j => q[i] # q[j]
                  /\ \A i, j \in 1..Len(rows) :
                        i < j => rows[q[i]].order.n <= rows[q[j]].order.n } }

\* The rows of `table` that belong to version_id, in table order.
rows_of(table, version_id) == SelectSeq(table, LAMBDA r : r.version_id = version_id)

\* --------------------------------------------- parsing/utils: the prompts
\* str(v) of a text column inside an f-string.
FormatText(v) == IF v.kind = "null" THEN "None" ELSE v.s

\* section.get("content") or section.get("raw_content", "")
content_or_raw(section) ==
    IF Truthy(section.content) THEN section.content ELSE section.raw_content

\* One block of the flattened resume: a list of text pieces, or None.
flatten_block(section) ==
    IF Truthy(section.title)
    THEN [kind |-> "text", pieces |-> <<section.title.s, "\n", FormatText(content_or_raw(section))>>]
    ELSE IF content_or_raw(section).kind = "null"
    THEN NoneValue
    ELSE [kind |-> "text", pieces |-> <<content_or_raw(section).s>>]

RECURSIVE join_blocks(_, _)
join_blocks(blocks, i) ==
    IF i > Len(blocks) THEN <<>>
    ELSE IF i = 1 THEN blocks[1].pieces \o join_blocks(blocks, 2)
    ELSE <<"\n\n">> \o blocks[i].pieces \o join_blocks(blocks, i + 1)

\* "\n\n".join(resume_text_parts): TypeError when a part is None.
flatten_resume(resume_sections) ==
    LET blocks == [i \in 1..Len(resume_sections) |-> flatten_block(resume_sections[i])]
    IN IF \E i \in 1..Len(blocks) : blocks[i] = NoneValue
       THEN Raised("TypeError")
       ELSE Returned(join_blocks(blocks, 1))

\* build_resume_customization_prompt
build_resume_customization_prompt(resume_sections, job_description) ==
    LET text == flatten_resume(resume_sections)
    IN IF text.ok
       THEN Returned([task |-> "customize", resume_text |-> text.value,
                      job_description |-> job_description])
       ELSE text

\* build_cover_letter_prompt
build_cover_letter_prompt(resume_sections, job_description) ==
    LET text == flatten_resume(resume_sections)
    IN IF text.ok
       THEN Returned([task |-> "cover_letter", resume_text |-> text.value,
                      job_description |-> job_description])
       ELSE text

\* ----------------------------------------- customization: Gateway replies
\* Elements of the customized `sections` array: objects with and without an
\* "order" of the LLM's own, and one non-object.
VersionItems ==
    { JDict([title |-> TitleValue, content |-> ContentValue]),
      JDict([content |-> ContentValue, order |-> JNum(7)]),
      JStr("garbage") }

\* What the sections call can return or raise.
VersionResponses(n) ==
    { JDict([sections |-> JList(s)]) : s \in SeqsUpTo(VersionItems, n) }
    \cup { JDict([sections |-> JStr("text")]), JDict([invalid |-> JStr("structure")]),
           JList(<<>>), JNull }

VersionGatewayOutcomes(n) ==
    { Raised(e) : e \in GatewayErrors } \cup { Returned(v) : v \in VersionResponses(n) }

\* What the cover-letter call can return or raise.
CoverLetterOutcomes ==
    { Raised("APIError") }
    \cup { Returned(v) : v \in { JDict([cover_letter |-> JStr("Dear hiring manager")]),
                                 JDict(EmptyFields), JList(<<>>) } }

\* --------------------------------------------- resumes/service: handlers
\* The handlers closing the try block of get_resume_by_id, get_version_by_id
\* and create_custom_version, with the HTTPException clause missing.
service_handlers_catch_all(raised) ==
    [kind |-> "raised", exc |-> "HTTPException", status |-> 500, cause |-> raised.exc]

\* `except HTTPException: raise` comes first; anything else becomes a 500
\* raised `from exc`.
service_handlers(raised) ==
    IF raised.exc = "HTTPException"
    THEN raised
    ELSE [kind |-> "raised", exc |-> "HTTPException", status |-> 500, cause |-> raised.exc]

\* What the body of create_custom_version does up to the sections call: the
\* lookup without the empty-sections check.
before_sections_call_no_empty_check(resume, job_description) ==
    IF resume = NoneValue
    THEN HTTPException(404)
    ELSE LET prompt == build_resume_customization_prompt(resume.sections, job_description)
         IN IF prompt.ok THEN [kind |-> "prompt", prompt |-> prompt.value]
            ELSE Propagated(prompt.exc)

\* What the body of create_custom_version does up to the sections call:
\* an exception raised inside the try block, or the prompt to send.
before_sections_call(resume, job_description) ==
    IF resume = NoneValue
    THEN HTTPException(404)
    ELSE IF Len(resume.sections) = 0
    THEN HTTPException(400)
    ELSE LET prompt == build_resume_customization_prompt(resume.sections, job_description)
         IN IF prompt.ok THEN [kind |-> "prompt", prompt |-> prompt.value]
            ELSE Propagated(prompt.exc)

\* The sections step of create_custom_version with a lenient top level: a
\* reply without a usable `sections` key counts as an empty list.
custom_sections_of_lenient(gateway) ==
    IF ~gateway.ok
    THEN Propagated(gateway.exc)
    ELSE LET x == IF IsDict(gateway.value)
                  THEN DictGet(gateway.value, "sections", JList(<<>>))
                  ELSE JList(<<>>)
         IN [kind |-> "sections", sections |-> IF IsList(x) THEN x.items ELSE <<>>]

\* The sections step of create_custom_version: an exception raised inside
\* the try block, or the list handed on as custom_sections.
custom_sections_of(gateway) ==
    IF ~gateway.ok
    THEN Propagated(gateway.exc)
    ELSE IF ~IsDict(gateway.value) \/ ~HasKey(gateway.value, "sections")
    THEN HTTPException(500)
    ELSE LET x == DictGet(gateway.value, "sections", JList(<<>>))
         IN [kind |-> "sections", sections |-> IF IsList(x) THEN x.items ELSE <<>>]

\* The cover-letter step: every exception is swallowed and leaves None.
cover_letter_of(prompt, gateway) ==
    IF prompt.ok /\ gateway.ok /\ IsDict(gateway.value)
       /\ HasKey(gateway.value, "cover_letter")
    THEN [kind |-> "cover_letter", value |-> gateway.value.fields["cover_letter"]]
    ELSE [kind |-> "cover_letter", value |-> JNull]

\* What create_custom_version returns: the version with its loaded sections.
ReturnedVersion(version, sections) == [kind |-> "returned", version |-> version, sections |-> sections]

\* router.create_resume_version: VersionOut is built without cover_letter.
create_resume_version(result) ==
    IF result.kind = "returned"
    THEN [status |-> 201, id |-> result.version.id,
          sections |-> [i \in 1..Len(result.sections) |-> SectionSchema(result.sections[i])],
          cover_letter |-> JNull]
    ELSE IF result.exc = "HTTPException"
    THEN [status |-> result.status, id |-> 0, sections |-> <<>>, cover_letter |-> JNull]
    ELSE [status |-> 500, id |-> 0, sections |-> <<>>, cover_letter |-> JNull]

\* router.get_resume: the stored sections as SectionSchema, or the status of
\* the HTTPException that passes through.
get_resume(result) ==
    IF result.kind = "returned"
    THEN [status |-> 200, id |-> result.resume.id,
          sections |-> [i \in 1..Len(result.resume.sections) |->
                           SectionSchema(result.resume.sections[i])],
          cover_letter |-> JNull]
    ELSE IF result.exc = "HTTPException"
    THEN [status |-> result.status, id |-> 0, sections |-> <<>>, cover_letter |-> JNull]
    ELSE [status |-> 500, id |-> 0, sections |-> <<>>, cover_letter |-> JNull]

\* router.get_resume_version: VersionOut with the stored cover_letter.
get_resume_version(result) ==
    IF result.kind = "returned"
    THEN [status |-> 200, id |-> result.version.id,
          sections |-> [i \in 1..Len(result.sections) |-> SectionSchema(result.sections[i])],
          cover_letter |-> result.version.cover_letter]
    ELSE IF result.exc = "HTTPException"
    THEN [status |-> result.status, id |-> 0, sections |-> <<>>, cover_letter |-> JNull]
    ELSE [status |-> 500, id |-> 0, sections |-> <<>>, cover_letter |-> JNull]

\* ResumeRepository.get_version_by_id against the committed tables: the
\* version with its sections loaded, or None.
repository_get_version_by_id(tables, version_id) ==
    IF \E i \in 1..Len(tables.versions) : tables.versions[i].id = version_id
    THEN LET v == CHOOSE v \in { tables.versions[i] : i \in 1..Len(tables.versions) } :
                     v.id = version_id
         IN { ReturnedVersion(v, s) : s \in OrderedLoads(rows_of(tables.sections, version_id)) }
    ELSE { NoneValue }

\* ResumeService.get_resume_by_id: None becomes a 404 raised inside the try.
get_resume_by_id(resumes, resume_id) ==
    LET resume == repository_get_by_id(resumes, resume_id)
    IN IF resume = NoneValue
       THEN service_handlers(HTTPException(404))
       ELSE [kind |-> "returned", resume |-> resume]

\* ResumeService.get_version_by_id: None becomes a 404 raised inside the try.
get_version_by_id(tables, version_id) ==
    { IF found = NoneValue THEN service_handlers(HTTPException(404)) ELSE found :
        found \in repository_get_version_by_id(tables, version_id) }

\* ------------------------------------------------ integrations/llm/client
\* Reply texts are sequences of one-character strings over the characters
\* of Whitespace, StringChars, the JSON punctuation, the digit 1 and the
\* letters of the fence tags.  On these characters \s of re, str.strip() and
\* the whitespace of json.loads agree.
Whitespace == {" ", "\n"}

\* s.strip(chars) for a set of characters.
Strip(s, chars) ==
    LET keep == { i \in 1..Len(s) : s[i] \notin chars }
    IN IF keep = {}
       THEN <<>>
       ELSE SubSeq(s, CHOOSE i \in keep : \A j \in keep : i <= j,
                      CHOOSE i \in keep : \A j \in keep : i >= j)

\* s.startswith(pat, pos), with 1-based pos
StartsWith(s, pos, pat) ==
    /\ pos + Len(pat) - 1 <= Len(s)
    /\ SubSeq(s, pos, pos + Len(pat) - 1) = pat

\* Where a greedy \s* that starts at pos stops: the first index at or after
\* pos that holds no whitespace, Len(s) + 1 when there is none.
ws_end(s, pos) ==
    LET stops == { i \in pos..Len(s) : s[i] \notin Whitespace }
    IN IF stops = {} THEN Len(s) + 1 ELSE CHOOSE i \in stops : \A j \in stops : i <= j

\* The backtick character, which a string of this notation cannot hold.
Backtick == "BACKTICK"

Fence == <<Backtick, Backtick, Backtick>>

\* re.sub(r'^```(?:json)?\s*\n?', '', s, flags=re.MULTILINE), from pos on: at
\* every line start of s that holds a fence, the fence, a following "json"
\* and all whitespace after it are dropped.
RECURSIVE sub_opening_fence(_, _)
sub_opening_fence(s, pos) ==
    IF pos > Len(s) THEN <<>>
    ELSE IF (pos = 1 \/ s[pos - 1] = "\n") /\ StartsWith(s, pos, Fence)
    THEN LET tag_end == IF StartsWith(s, pos + 3, <<"j", "s", "o", "n">>)
                        THEN pos + 7 ELSE pos + 3
         IN sub_opening_fence(s, ws_end(s, tag_end))
    ELSE <<s[pos]>> \o sub_opening_fence(s, pos + 1)

\* re.sub(r'\n?```\s*$', '', s, flags=re.MULTILINE), from pos on: a fence,
\* with the newline before it, is dropped when only whitespace separates it
\* from the end of s or from a newline; the match then ends at the end of s,
\* or just before the last newline of that whitespace.
RECURSIVE sub_closing_fence(_, _)
sub_closing_fence(s, pos) ==
    IF pos > Len(s) THEN <<>>
    ELSE LET fence_at == IF s[pos] = "\n" THEN pos + 1 ELSE pos
             stop == ws_end(s, fence_at + 3)
             newlines == { i \in (fence_at + 3)..(stop - 1) : s[i] = "\n" }
         IN IF StartsWith(s, fence_at, Fence) /\ stop = Len(s) + 1
            THEN <<>>
            ELSE IF StartsWith(s, fence_at, Fence) /\ newlines # {}
            THEN sub_closing_fence(s, CHOOSE i \in newlines : \A j \in newlines : i >= j)
            ELSE <<s[pos]>> \o sub_closing_fence(s, pos + 1)

\* The quote rule: a text that starts and ends with the same quote character
\* and has { or [ right behind the first one loses both quotes.
unwrap_quotes(s) ==
    IF Len(s) > 2 /\ s[1] = s[Len(s)] /\ s[1] \in {"'", "\""} /\ s[2] \in {"{", "["}
    THEN SubSeq(s, 2, Len(s) - 1)
    ELSE s

\* GeminiClient._clean_json_response
clean_json_response(text) ==
    IF text = <<>>
    THEN text
    ELSE LET unfenced == sub_closing_fence(sub_opening_fence(text, 1), 1)
             bare == Strip(Strip(Strip(unfenced, Whitespace), {Backtick}), Whitespace)
         IN Strip(unwrap_quotes(bare), Whitespace)

\* ------------------------------------------------------------- json.loads
\* The integer written as k digits 1.
RECURSIVE ones(_)
ones(k) == IF k = 0 THEN 0 ELSE 10 * ones(k - 1) + 1

NoParse == [ok |-> FALSE, value |-> JNull, next |-> 0]

\* A string token at pos: up to the next double quote, on one line.
parse_string(s, pos) ==
    LET quotes == { i \in (pos + 1)..Len(s) : s[i] = "\"" }
        close == CHOOSE i \in quotes : \A j \in quotes : i <= j
    IN IF pos > Len(s) \/ s[pos] # "\"" \/ quotes = {}
       THEN NoParse
       ELSE IF \E i \in (pos + 1)..(close - 1) : s[i] = "\n"
       THEN NoParse
       ELSE [ok |-> TRUE, value |-> JStr(SubSeq(s, pos + 1, close - 1)), next |-> close + 1]

RECURSIVE parse_value(_, _)
RECURSIVE parse_items(_, _, _)
RECURSIVE parse_members(_, _, _)

\* The elements of an array from pos on, after `[` and at least one element
\* to come; acc holds the elements read so far.
parse_items(s, pos, acc) ==
    LET v == parse_value(s, pos)
        sep == ws_end(s, v.next)
    IN IF ~v.ok \/ sep > Len(s) THEN NoParse
       ELSE IF s[sep] = "]"
       THEN [ok |-> TRUE, value |-> JList(Append(acc, v.value)), next |-> sep + 1]
       ELSE IF s[sep] = ","
       THEN parse_items(s, ws_end(s, sep + 1), Append(acc, v.value))
       ELSE NoParse

\* The members of an object from pos on; a repeated key keeps its last value.
parse_members(s, pos, fields) ==
    LET key == parse_string(s, pos)
        colon == ws_end(s, key.next)
        v == parse_value(s, ws_end(s, colon + 1))
        sep == ws_end(s, v.next)
        read == (key.value.s :> v.value) @@ fields
    IN IF ~key.ok \/ colon > Len(s) THEN NoParse
       ELSE IF s[colon] # ":" THEN NoParse
       ELSE IF ~v.ok \/ sep > Len(s) THEN NoParse
       ELSE IF s[sep] = "}"
       THEN [ok |-> TRUE, value |-> JDict(read), next |-> sep + 1]
       ELSE IF s[sep] = ","
       THEN parse_members(s, ws_end(s, sep + 1), read)
       ELSE NoParse

\* One JSON value starting at pos.
parse_value(s, pos) ==
    IF pos > Len(s) THEN NoParse
    ELSE IF s[pos] = "\"" THEN parse_string(s, pos)
    ELSE IF s[pos] = "1"
    THEN LET after == { i \in pos..Len(s) : s[i] # "1" }
             stop == IF after = {} THEN Len(s) + 1
                     ELSE CHOOSE i \in after : \A j \in after : i <= j
         IN [ok |-> TRUE, value |-> JNum(ones(stop - pos)), next |-> stop]
    ELSE IF s[pos] = "["
    THEN LET first == ws_end(s, pos + 1)
         IN IF first <= Len(s) /\ s[first] = "]"
            THEN [ok |-> TRUE, value |-> JList(<<>>), next |-> first + 1]
            ELSE parse_items(s, first, <<>>)
    ELSE IF s[pos] = "{"
    THEN LET first == ws_end(s, pos + 1)
         IN IF first <= Len(s) /\ s[first] = "}"
            THEN [ok |-> TRUE, value |-> JDict(EmptyFields), next |-> first + 1]
            ELSE parse_members(s, first, EmptyFields)
    ELSE NoParse

\* json.loads: one value with whitespace around it, or JSONDecodeError.
json_loads(s) ==
    LET v == parse_value(s, ws_end(s, 1))
    IN IF v.ok /\ ws_end(s, v.next) = Len(s) + 1
       THEN Returned(v.value)
       ELSE Raised("JSONDecodeError")

\* Number of characters of the cleaned text that the error message keeps.
ErrorTextLimit == 200

\* GeminiClient.generate_json, given the text of the backend's reply: the
\* decoded value, or ValueError; `cleaned` is what the sanitizer handed on,
\* `message` what the text of the raised error holds, `cause` the error it
\* was raised from.
generate_json(raw) ==
    LET cleaned == clean_json_response(raw)
        decoded == json_loads(cleaned)
    IN IF decoded.ok
       THEN [ok |-> TRUE, value |-> decoded.value, cleaned |-> cleaned]
       ELSE [ok |-> FALSE, exc |-> "ValueError", cleaned |-> cleaned,
             message |-> [error |-> decoded.exc,
                          cleaned |-> SubSeq(cleaned, 1,
                                       IF Len(cleaned) > ErrorTextLimit
                                       THEN ErrorTextLimit ELSE Len(cleaned))],
             cause |-> decoded.exc]

\* ------------------------------------------------- the universe of texts
\* Characters inside JSON strings.
StringChars == {"a", "{", "[", Backtick}

\* Texts of JSON strings and of the number 1.
ScalarTexts ==
    { <<"\"">> \o c \o <<"\"">> : c \in SeqsUpTo(StringChars, MaxStringLen) } \cup { <<"1">> }

\* Texts of JSON objects, as json.dumps writes them.
ObjectTexts ==
    { <<"{", "}">> }
    \cup { <<"{", "\"", "a", "\"", ":", " ">> \o v \o <<"}">> :
             v \in ScalarTexts \cup { <<"[", "]">> } }

\* Texts of JSON values of every kind.
JsonTexts ==
    ScalarTexts \cup ObjectTexts
    \cup { <<"[", "]">> } \cup { <<"[">> \o v \o <<"]">> : v \in ScalarTexts }

\* Language tags after an opening fence: none, json, and another name.
FenceTags == { <<>>, <<"j", "s", "o", "n">>, <<"p", "y">> }

\* J inside a fenced code block, single backticks, or one pair of quotes.
Wrappings(J) ==
    { Fence \o tag \o <<"\n">> \o J \o <<"\n">> \o Fence : tag \in FenceTags }
    \cup { <<q>> \o J \o <<q>> : q \in {Backtick, "'", "\""} }

\* Whitespace a reply may carry around its content.
Pads == { <<>>, <<" ">>, <<"\n">> }

\* Replies of the backend: JSON texts, wrapped object texts and texts that
\* are neither, each with and without whitespace around it.
ReplyTexts ==
    { before \o t \o after :
        before \in Pads, after \in Pads,
        t \in JsonTexts
              \cup UNION { Wrappings(J) : J \in ObjectTexts }
              \cup { <<>>, <<"n", "o">>, <<"{">>, <<"\"", "a">>, Fence } }

\* ------------------------------------------- core/config and the clients
\* os.getenv of a variable that is not set.
Unset == "<unset>"

\* The environment of the process: each variable is unset or holds a text.
Environments ==
    [LLM_PROVIDER : {Unset, "gemini", "openai", "OpenAI", "claude"},
     OPENAI_API_KEY : {Unset, "", "sk-test"},
     LLM_TIMEOUT : {Unset, "1"}]

\* Settings.__init__: the provider is lower-cased and checked against the
\* allow-list; the keys and the timeout are read as they are.
Settings(env) ==
    LET given == IF env.LLM_PROVIDER = Unset THEN "gemini" ELSE env.LLM_PROVIDER
        raw == IF given = "OpenAI" THEN "openai" ELSE given
    IN IF raw \notin {"gemini", "openai"}
       THEN Raised("ValueError")
       ELSE Returned([LLM_PROVIDER |-> raw,
                      OPENAI_API_KEY |-> env.OPENAI_API_KEY,
                      LLM_TIMEOUT |-> IF env.LLM_TIMEOUT = Unset THEN 30 ELSE 1])

\* OpenAIClient.__init__
OpenAIClient(api_key) ==
    IF api_key \in {Unset, ""}
    THEN Raised("ValueError")
    ELSE Returned([class |-> "OpenAIClient", api_key |-> api_key])

\* GeminiClient.__init__
GeminiClient == Returned([class |-> "GeminiClient", api_key |-> Unset])

\* create_llm_client: both constructors are called without arguments.
create_llm_client(settings) ==
    IF settings.LLM_PROVIDER = "gemini" THEN GeminiClient
    ELSE IF settings.LLM_PROVIDER = "openai" THEN OpenAIClient(Unset)
    ELSE Raised("ValueError")

\* ------------------------------------------------------------------- state
VARIABLES
    p_raw_text,   \* SpecParse: the text given to parse
    p_gateway,    \* SpecParse: what the Gateway call does
    p_result,     \* SpecParse: what parse returned or raised; Pending before the call
    pc,           \* Spec: where the current upload request stands
    upload,       \* Spec: the UploadFile of the current request
    disk,         \* Spec: files under the storage directory, by file id
    saved_path,   \* Spec: locator returned by save_file in this request
    raw_text,     \* Spec: text returned by extract_text in this request
    outcome,      \* Spec: what create_base_resume_from_upload returned or raised
    calls,        \* Spec: per request, how often each collaborator was invoked, and
                  \*       what each Gateway call did (llm)
    saved_at_parse, \* Spec: whether the file was readable from disk when parse began
    save_status,  \* Spec: "none", "ok" or "failed": what save_file did in this request
    parse_result, \* Spec: what ParsingService.parse returned or raised in this request
    response,     \* Spec: what the upload endpoint answered
    requests,     \* Spec: number of uploads started
    v_pc,              \* SpecVersion: where the version-creation request stands
    v_resume_id,       \* SpecVersion: path parameter of the request
    v_job_description, \* SpecVersion: body of the request
    v_resume_sections, \* SpecVersion: the stored sections handed to the prompts
    v_custom_sections, \* SpecVersion: custom_sections after the first Gateway call
    v_cover_letter,    \* SpecVersion: cover_letter after the second Gateway call
    v_version,         \* SpecVersion: the ResumeVersionModel built by create_version
    v_outcome,         \* SpecVersion: what create_custom_version returned or raised
    v_response,        \* SpecVersion: what the endpoint answered
    v_llm_calls,       \* SpecVersion: Gateway calls of this request and what each did
    v_requests,        \* SpecVersion: number of version-creation requests started
    db_resumes,        \* SpecVersion: committed resumes with their sections
    db_committed,      \* SpecVersion: committed version and version-section rows
    db_tx,             \* SpecVersion: rows inserted by the session, not yet committed
    db_session_new,    \* SpecVersion: rows added to the session, not yet flushed
    reader_outcome,    \* SpecVersion: the latest GET of another session and its answer
    s_text,            \* SpecClean: the reply text of the backend
    s_result,          \* SpecClean: what generate_json returned or raised
    g_env,             \* SpecGateway: the environment variables of the process
    g_pc,              \* SpecGateway: where the process and its Gateway call stand
    g_settings,        \* SpecGateway: the Settings object built at import
    g_client,          \* SpecGateway: what create_llm_client returned or raised
    g_elapsed,         \* SpecGateway: time units since generate_content was called
    g_result,          \* SpecGateway: what generate_json returned or raised
    st_saves,          \* SpecStorage: the save_file calls, each with its position
    st_files           \* SpecStorage: the file system, path -> bytes

parse_vars == <<p_raw_text, p_gateway, p_result>>
ingest_vars == <<pc, upload, disk, saved_path, raw_text, outcome, calls, saved_at_parse,
                 save_status, parse_result, response, requests>>
version_vars == <<v_pc, v_resume_id, v_job_description, v_resume_sections, v_custom_sections,
                  v_cover_letter, v_version, v_outcome, v_response, v_llm_calls, v_requests,
                  db_resumes, db_committed, db_tx, db_session_new,
                  reader_outcome>>
clean_vars == <<s_text, s_result>>
gateway_vars == <<g_env, g_pc, g_settings, g_client, g_elapsed, g_result>>
storage_vars == <<st_saves, st_files>>
vars == <<p_raw_text, p_gateway, p_result,
          pc, upload, disk, saved_path, raw_text, outcome, calls, saved_at_parse,
          save_status, parse_result, response, requests,
          v_pc, v_resume_id, v_job_description, v_resume_sections, v_custom_sections,
          v_cover_letter, v_version, v_outcome, v_response, v_llm_calls, v_requests,
          db_resumes, db_committed, db_tx, db_session_new,
          reader_outcome, s_text, s_result,
          g_env, g_pc, g_settings, g_client, g_elapsed, g_result,
          st_saves, st_files>>

Pending == [ok |-> FALSE, exc |-> "<pending>"]

NoUpload == [filename |-> <<>>, content_type |-> CT_none, file_bytes |-> [format |-> "junk", text |-> ""]]
NoPath == [dir |-> "", file_id |-> 0, ext |-> <<>>]
NoCalls == [save_file |-> 0, extract_text |-> 0, parse |-> 0, generate_json |-> 0, llm |-> <<>>]
PartialFile == [format |-> "partial", text |-> ""]

IngestIdle ==
    /\ pc = "idle"
    /\ upload = NoUpload
    /\ disk = <<>>
    /\ saved_path = NoPath
    /\ raw_text = ""
    /\ outcome = NoOutcome
    /\ calls = NoCalls
    /\ saved_at_parse = FALSE
    /\ save_status = "none"
    /\ parse_result = Pending
    /\ response = NoResponse
    /\ requests = 0

ParseIdle ==
    /\ p_raw_text = ""
    /\ p_gateway = Raised("APIError")
    /\ p_result = Pending

NoVersion == ResumeVersionModel(0, 0, "", JNull)
NoVersionResponse == [status |-> 0, id |-> 0, sections |-> <<>>, cover_letter |-> JNull]

\* What a GET request of another session asked for and got.
Read(op, id, result, answer) == [op |-> op, id |-> id, result |-> result, response |-> answer]
NoRead == Read("none", 0, NoOutcome, NoVersionResponse)

VersionIdle ==
    /\ v_pc = "idle"
    /\ v_resume_id = 0
    /\ v_job_description = ""
    /\ v_resume_sections = <<>>
    /\ v_custom_sections = <<>>
    /\ v_cover_letter = JNull
    /\ v_version = NoVersion
    /\ v_outcome = NoOutcome
    /\ v_response = NoVersionResponse
    /\ v_llm_calls = <<>>
    /\ v_requests = 0
    /\ db_resumes = StoredResumes
    /\ db_committed = NoRows
    /\ db_tx = NoRows
    /\ db_session_new = <<>>
    /\ reader_outcome = NoRead

CleanIdle ==
    /\ s_text = <<>>
    /\ s_result = Pending

StorageIdle ==
    /\ st_saves = <<>>
    /\ st_files = <<>>

GatewayIdle ==
    /\ g_env = [LLM_PROVIDER |-> Unset, OPENAI_API_KEY |-> Unset, LLM_TIMEOUT |-> Unset]
    /\ g_pc = "off"
    /\ g_settings = Pending
    /\ g_client = Pending
    /\ g_elapsed = 0
    /\ g_result = Pending

\* ---------------------------------------------------------------- SpecParse
InitParse ==
    /\ p_raw_text \in RawTexts
    /\ p_gateway \in GatewayOutcomes(MaxSections)
    /\ p_result = Pending
    /\ IngestIdle
    /\ VersionIdle
    /\ CleanIdle
    /\ GatewayIdle
    /\ StorageIdle

CallParse ==
    /\ p_result = Pending
    /\ p_result' = parse(p_gateway, p_raw_text)
    /\ UNCHANGED <<p_raw_text, p_gateway>>
    /\ UNCHANGED <<ingest_vars, version_vars, clean_vars, gateway_vars, storage_vars>>

NextParse == CallParse

SpecParse == InitParse /\ [][NextParse]_vars

\* --------------------------------------------------------------------- Spec
\* ResumeService.create_base_resume_from_upload, one step per I/O point.
Init == ParseIdle /\ IngestIdle /\ VersionIdle /\ CleanIdle /\ GatewayIdle /\ StorageIdle

\* The request arrives and the file is read (await file.read()).
Upload(f) ==
    /\ pc = "idle"
    /\ requests < MaxRequests
    /\ pc' = "read"
    /\ upload' = f
    /\ saved_path' = NoPath
    /\ raw_text' = ""
    /\ outcome' = NoOutcome
    /\ calls' = NoCalls
    /\ saved_at_parse' = FALSE
    /\ save_status' = "none"
    /\ parse_result' = Pending
    /\ response' = NoResponse
    /\ requests' = requests + 1
    /\ UNCHANGED disk
    /\ UNCHANGED <<parse_vars, version_vars, clean_vars, gateway_vars, storage_vars>>

\* Step 1, the write succeeds.
SaveFileOk ==
    /\ pc = "read"
    /\ disk' = Append(disk, upload.file_bytes)
    /\ saved_path' = save_file_path(Len(disk) + 1, filename_or_unknown(upload.filename))
    /\ calls' = [calls EXCEPT !.save_file = @ + 1]
    /\ save_status' = "ok"
    /\ pc' = "saved"
    /\ UNCHANGED <<upload, raw_text, outcome, saved_at_parse, parse_result, response, requests>>
    /\ UNCHANGED <<parse_vars, version_vars, clean_vars, gateway_vars, storage_vars>>

\* Variant of the failing step 1: the service logs the failure and carries on.
SaveFileFail_swallowed ==
    /\ pc = "read"
    /\ \E created \in BOOLEAN :
          disk' = IF created THEN Append(disk, PartialFile) ELSE disk
    /\ calls' = [calls EXCEPT !.save_file = @ + 1]
    /\ save_status' = "failed"
    /\ pc' = "saved"
    /\ UNCHANGED <<upload, saved_path, raw_text, outcome, response, saved_at_parse,
                   parse_result, requests>>
    /\ UNCHANGED <<parse_vars, version_vars, clean_vars, gateway_vars, storage_vars>>

\* Step 1, open or write fails: save_file re-raises, and so does the service.
\* The target may or may not have been created before the failure.
SaveFileFail ==
    /\ pc = "read"
    /\ \E created \in BOOLEAN :
          disk' = IF created THEN Append(disk, PartialFile) ELSE disk
    /\ calls' = [calls EXCEPT !.save_file = @ + 1]
    /\ save_status' = "failed"
    /\ outcome' = Propagated("OSError")
    /\ response' = upload_resume(outcome')
    /\ pc' = "idle"
    /\ UNCHANGED <<upload, saved_path, raw_text, saved_at_parse, parse_result, requests>>
    /\ UNCHANGED <<parse_vars, version_vars, clean_vars, gateway_vars, storage_vars>>

\* Step 2: extract_text; only UnsupportedFileFormatError is caught (-> 400).
ExtractText ==
    /\ pc = "saved"
    /\ calls' = [calls EXCEPT !.extract_text = @ + 1]
    /\ LET r == extract_text(upload.file_bytes, filename_or_unknown(upload.filename),
                             upload.content_type)
       IN IF r.ok
          THEN /\ raw_text' = r.value
               /\ pc' = "extracted"
               /\ UNCHANGED <<outcome, response>>
          ELSE /\ outcome' = IF r.exc = "UnsupportedFileFormatError"
                             THEN HTTPException(400)
                             ELSE Propagated(r.exc)
               /\ response' = upload_resume(outcome')
               /\ pc' = "idle"
               /\ UNCHANGED raw_text
    /\ UNCHANGED <<upload, disk, saved_path, saved_at_parse, save_status, parse_result, requests>>
    /\ UNCHANGED <<parse_vars, version_vars, clean_vars, gateway_vars, storage_vars>>

\* Steps 3 and 4: parse (one Gateway call inside), then build and return.
\* The id of the resume is a fresh UUID: none of the stored ids, and none
\* given to an earlier upload.
ParseAndReturn(gateway) ==
    /\ pc = "extracted"
    /\ calls' = [calls EXCEPT !.parse = @ + 1, !.generate_json = @ + 1,
                              !.llm = Append(@, gateway)]
    /\ saved_at_parse' = (/\ saved_path.file_id \in 1..Len(disk)
                          /\ disk[saved_path.file_id] = upload.file_bytes)
    /\ parse_result' = parse(gateway, raw_text)
    /\ outcome' = resume_from_parse(parse_result', Len(db_resumes) + requests, upload, saved_path)
    /\ response' = upload_resume(outcome')
    /\ pc' = "idle"
    /\ UNCHANGED <<upload, disk, saved_path, raw_text, save_status, requests>>
    /\ UNCHANGED <<parse_vars, version_vars, clean_vars, gateway_vars, storage_vars>>

Next ==
    \/ \E f \in Uploads : Upload(f)
    \/ SaveFileOk
    \/ SaveFileFail
    \/ ExtractText
    \/ \E g \in GatewayOutcomes(MaxIngestSections) : ParseAndReturn(g)

Spec == Init /\ [][Next]_vars

\* -------------------------------------------------------------- SpecVersion
\* ResumeService.create_custom_version behind POST /{resume_id}/versions, one
\* step per I/O point, with the session of get_db; GET requests of other
\* sessions read the committed tables at any moment.  The commit issued by
\* get_db is taken to succeed.
InitVersion == ParseIdle /\ IngestIdle /\ VersionIdle /\ CleanIdle /\ GatewayIdle /\ StorageIdle

\* The request arrives; get_db opens a session for it.
CreateVersionRequest(resume_id, job_description) ==
    /\ v_pc = "idle"
    /\ v_requests < MaxVersionRequests
    /\ v_pc' = "lookup"
    /\ v_resume_id' = resume_id
    /\ v_job_description' = job_description
    /\ v_resume_sections' = <<>>
    /\ v_custom_sections' = <<>>
    /\ v_cover_letter' = JNull
    /\ v_version' = NoVersion
    /\ v_outcome' = NoOutcome
    /\ v_response' = NoVersionResponse
    /\ v_llm_calls' = <<>>
    /\ v_requests' = v_requests + 1
    /\ UNCHANGED <<db_resumes, db_committed, db_tx, db_session_new, reader_outcome>>
    /\ UNCHANGED <<parse_vars, ingest_vars, clean_vars, gateway_vars, storage_vars>>

\* repository.get_by_id, the two checks on the document, and the prompt.
LoadResume ==
    /\ v_pc = "lookup"
    /\ LET b == before_sections_call(repository_get_by_id(db_resumes, v_resume_id), v_job_description)
       IN IF b.kind = "prompt"
          THEN /\ v_resume_sections' = db_resumes[v_resume_id].sections
               /\ v_pc' = "sections_call"
               /\ UNCHANGED v_outcome
          ELSE /\ v_outcome' = service_handlers(b)
               /\ v_pc' = "raised"
               /\ UNCHANGED v_resume_sections
    /\ UNCHANGED <<v_resume_id, v_job_description, v_custom_sections, v_cover_letter, v_version,
                   v_response, v_llm_calls, v_requests, db_resumes, db_committed,
                   db_tx, db_session_new, reader_outcome>>
    /\ UNCHANGED <<parse_vars, ingest_vars, clean_vars, gateway_vars, storage_vars>>

\* Variant of SectionsCall: a first call that fails is made once more.
SectionsCall_retry_once(gateway) ==
    /\ v_pc = "sections_call"
    /\ v_llm_calls' = Append(v_llm_calls, [task |-> "customize", outcome |-> gateway])
    /\ LET c == custom_sections_of(gateway)
       IN IF c.kind = "sections"
          THEN /\ v_custom_sections' = c.sections
               /\ v_pc' = "cover_letter_call"
               /\ UNCHANGED v_outcome
          ELSE IF v_llm_calls = <<>>
          THEN UNCHANGED <<v_custom_sections, v_pc, v_outcome>>
          ELSE /\ v_outcome' = service_handlers(c)
               /\ v_pc' = "raised"
               /\ UNCHANGED v_custom_sections
    /\ UNCHANGED <<v_resume_id, v_job_description, v_resume_sections, v_cover_letter, v_version,
                   v_response, v_requests, db_resumes, db_committed,
                   db_tx, db_session_new, reader_outcome>>
    /\ UNCHANGED <<parse_vars, ingest_vars, clean_vars, gateway_vars, storage_vars>>

\* The first Gateway call and the checks on its reply.
SectionsCall(gateway) ==
    /\ v_pc = "sections_call"
    /\ v_llm_calls' = Append(v_llm_calls, [task |-> "customize", outcome |-> gateway])
    /\ LET c == custom_sections_of(gateway)
       IN IF c.kind = "sections"
          THEN /\ v_custom_sections' = c.sections
               /\ v_pc' = "cover_letter_call"
               /\ UNCHANGED v_outcome
          ELSE /\ v_outcome' = service_handlers(c)
               /\ v_pc' = "raised"
               /\ UNCHANGED v_custom_sections
    /\ UNCHANGED <<v_resume_id, v_job_description, v_resume_sections, v_cover_letter, v_version,
                   v_response, v_requests, db_resumes, db_committed,
                   db_tx, db_session_new, reader_outcome>>
    /\ UNCHANGED <<parse_vars, ingest_vars, clean_vars, gateway_vars, storage_vars>>

\* The second Gateway call, inside its own try block.
CoverLetterCall(gateway) ==
    /\ v_pc = "cover_letter_call"
    /\ LET prompt == build_cover_letter_prompt(v_resume_sections, v_job_description)
           c == cover_letter_of(prompt, gateway)
       IN /\ v_llm_calls' = IF prompt.ok
                              THEN Append(v_llm_calls, [task |-> "cover_letter", outcome |-> gateway])
                              ELSE v_llm_calls
          /\ IF c.kind = "cover_letter"
             THEN /\ v_cover_letter' = c.value
                  /\ v_pc' = "create_version"
                  /\ UNCHANGED v_outcome
             ELSE /\ v_outcome' = service_handlers(c)
                  /\ v_pc' = "raised"
                  /\ UNCHANGED v_cover_letter
    /\ UNCHANGED <<v_resume_id, v_job_description, v_resume_sections, v_custom_sections, v_version,
                   v_response, v_requests, db_resumes, db_committed,
                   db_tx, db_session_new, reader_outcome>>
    /\ UNCHANGED <<parse_vars, ingest_vars, clean_vars, gateway_vars, storage_vars>>

\* create_version: the version row is added and flushed; the INSERT is part
\* of the session's open transaction, or fails and the exception travels up.
FlushVersion(inserted) ==
    /\ v_pc = "create_version"
    /\ v_version' = ResumeVersionModel(fresh_id(db_committed), v_resume_id, v_job_description,
                                       v_cover_letter)
    /\ IF inserted
       THEN /\ db_tx' = [db_tx EXCEPT
                           !.versions = Append(@, v_version'),
                           !.built_from = Append(@, [version_id |-> v_version'.id,
                                                     items |-> Len(v_custom_sections)])]
            /\ v_pc' = "add_sections"
            /\ UNCHANGED v_outcome
       ELSE /\ v_outcome' = service_handlers(Propagated("SQLAlchemyError"))
            /\ v_pc' = "raised"
            /\ UNCHANGED db_tx
    /\ UNCHANGED <<v_resume_id, v_job_description, v_resume_sections, v_custom_sections,
                   v_cover_letter, v_response, v_llm_calls, v_requests, db_resumes,
                   db_committed, db_session_new, reader_outcome>>
    /\ UNCHANGED <<parse_vars, ingest_vars, clean_vars, gateway_vars, storage_vars>>

\* create_version: the loop that builds one row per item and adds it to the
\* session; an item without .get ends it with AttributeError.
AddSections ==
    /\ v_pc = "add_sections"
    /\ LET n == dict_prefix(v_custom_sections, 0)
       IN /\ db_session_new' = section_rows(v_version.id, v_custom_sections, n)
          /\ IF n = Len(v_custom_sections)
             THEN /\ v_pc' = "flush_sections"
                  /\ UNCHANGED v_outcome
             ELSE /\ v_outcome' = service_handlers(Propagated("AttributeError"))
                  /\ v_pc' = "raised"
    /\ UNCHANGED <<v_resume_id, v_job_description, v_resume_sections, v_custom_sections,
                   v_cover_letter, v_version, v_response, v_llm_calls, v_requests,
                   db_resumes, db_committed, db_tx, reader_outcome>>
    /\ UNCHANGED <<parse_vars, ingest_vars, clean_vars, gateway_vars, storage_vars>>

\* create_version: the second flush inserts the rows one after another and
\* may fail after any number of them; when all are in, refresh loads the
\* version's sections and the service returns the version.
FlushSections(inserted) ==
    /\ v_pc = "flush_sections"
    /\ inserted \in 0..Len(db_session_new)
    /\ db_tx' = [db_tx EXCEPT !.sections = @ \o SubSeq(db_session_new, 1, inserted)]
    /\ db_session_new' = SubSeq(db_session_new, inserted + 1, Len(db_session_new))
    /\ IF inserted = Len(db_session_new)
       THEN /\ \E loaded \in OrderedLoads(rows_of(db_tx'.sections, v_version.id)) :
                  v_outcome' = ReturnedVersion(v_version, loaded)
            /\ v_pc' = "returned"
       ELSE /\ v_outcome' = service_handlers(Propagated("SQLAlchemyError"))
            /\ v_pc' = "raised"
    /\ UNCHANGED <<v_resume_id, v_job_description, v_resume_sections, v_custom_sections,
                   v_cover_letter, v_version, v_response, v_llm_calls, v_requests,
                   db_resumes, db_committed, reader_outcome>>
    /\ UNCHANGED <<parse_vars, ingest_vars, clean_vars, gateway_vars, storage_vars>>

\* Variant of Commit in which the session commits on every flush, so that
\* the version row is committed before its sections are inserted.
Commit_after_each_flush ==
    /\ v_pc \in {"add_sections", "returned"}
    /\ db_committed' = [versions |-> db_committed.versions \o db_tx.versions,
                        sections |-> db_committed.sections \o db_tx.sections \o db_session_new,
                        built_from |-> db_committed.built_from \o db_tx.built_from]
    /\ db_tx' = NoRows
    /\ db_session_new' = <<>>
    /\ IF v_pc = "returned"
       THEN /\ v_response' = create_resume_version(v_outcome)
            /\ v_pc' = "idle"
       ELSE UNCHANGED <<v_response, v_pc>>
    /\ UNCHANGED <<v_resume_id, v_job_description, v_resume_sections, v_custom_sections,
                   v_cover_letter, v_version, v_outcome, v_llm_calls, v_requests,
                   db_resumes, reader_outcome>>
    /\ UNCHANGED <<parse_vars, ingest_vars, clean_vars, gateway_vars, storage_vars>>

\* The endpoint answers 201 and get_db commits: everything the session wrote
\* becomes visible at once.
Commit ==
    /\ v_pc = "returned"
    /\ v_response' = create_resume_version(v_outcome)
    /\ db_committed' = [versions |-> db_committed.versions \o db_tx.versions,
                        sections |-> db_committed.sections \o db_tx.sections \o db_session_new,
                        built_from |-> db_committed.built_from \o db_tx.built_from]
    /\ db_tx' = NoRows
    /\ db_session_new' = <<>>
    /\ v_pc' = "idle"
    /\ UNCHANGED <<v_resume_id, v_job_description, v_resume_sections, v_custom_sections,
                   v_cover_letter, v_version, v_outcome, v_llm_calls, v_requests,
                   db_resumes, reader_outcome>>
    /\ UNCHANGED <<parse_vars, ingest_vars, clean_vars, gateway_vars, storage_vars>>

\* Variant of Rollback: the session is closed without a rollback, and what it
\* had flushed stays in the tables.
Rollback_keeps_flushed_rows ==
    /\ v_pc = "raised"
    /\ v_response' = create_resume_version(v_outcome)
    /\ db_committed' = [versions |-> db_committed.versions \o db_tx.versions,
                        sections |-> db_committed.sections \o db_tx.sections,
                        built_from |-> db_committed.built_from \o db_tx.built_from]
    /\ db_tx' = NoRows
    /\ db_session_new' = <<>>
    /\ v_pc' = "idle"
    /\ UNCHANGED <<v_resume_id, v_job_description, v_resume_sections, v_custom_sections,
                   v_cover_letter, v_version, v_outcome, v_llm_calls, v_requests,
                   db_resumes, reader_outcome>>
    /\ UNCHANGED <<parse_vars, ingest_vars, clean_vars, gateway_vars, storage_vars>>

\* The exception passes through the endpoint into get_db, which rolls back:
\* nothing the session wrote is kept.
Rollback ==
    /\ v_pc = "raised"
    /\ v_response' = create_resume_version(v_outcome)
    /\ db_tx' = NoRows
    /\ db_session_new' = <<>>
    /\ v_pc' = "idle"
    /\ UNCHANGED <<v_resume_id, v_job_description, v_resume_sections, v_custom_sections,
                   v_cover_letter, v_version, v_outcome, v_llm_calls, v_requests,
                   db_resumes, db_committed, reader_outcome>>
    /\ UNCHANGED <<parse_vars, ingest_vars, clean_vars, gateway_vars, storage_vars>>

\* GET /{resume_id} in a session of its own: get_resume_by_id.
GetResume(resume_id) ==
    /\ LET result == get_resume_by_id(db_resumes, resume_id)
       IN reader_outcome' = Read("get_resume", resume_id, result, get_resume(result))
    /\ UNCHANGED <<v_pc, v_resume_id, v_job_description, v_resume_sections, v_custom_sections,
                   v_cover_letter, v_version, v_outcome, v_response, v_llm_calls, v_requests,
                   db_resumes, db_committed, db_tx, db_session_new>>
    /\ UNCHANGED <<parse_vars, ingest_vars, clean_vars, gateway_vars, storage_vars>>

\* GET /versions/{version_id} in a session of its own: get_version_by_id.
GetVersion(version_id) ==
    /\ \E result \in get_version_by_id(db_committed, version_id) :
          reader_outcome' = Read("get_version", version_id, result, get_resume_version(result))
    /\ UNCHANGED <<v_pc, v_resume_id, v_job_description, v_resume_sections, v_custom_sections,
                   v_cover_letter, v_version, v_outcome, v_response, v_llm_calls, v_requests,
                   db_resumes, db_committed, db_tx, db_session_new>>
    /\ UNCHANGED <<parse_vars, ingest_vars, clean_vars, gateway_vars, storage_vars>>

NextVersion ==
    \/ \E r \in ResumeIds, j \in JobDescriptions : CreateVersionRequest(r, j)
    \/ LoadResume
    \/ \E g \in VersionGatewayOutcomes(MaxVersionSections) : SectionsCall(g)
    \/ \E g \in CoverLetterOutcomes : CoverLetterCall(g)
    \/ \E inserted \in BOOLEAN : FlushVersion(inserted)
    \/ AddSections
    \/ \E inserted \in 0..MaxVersionSections : FlushSections(inserted)
    \/ Commit
    \/ Rollback
    \/ \E r \in {1, 4} : GetResume(r)
    \/ \E v \in 1..(MaxVersionRequests + 1) : GetVersion(v)

SpecVersion == InitVersion /\ [][NextVersion]_vars


\* ------------------------------------------------------------ SpecLifecycle
\* The uploads of Spec; once an upload has been answered with 201, the client
\* asks for the returned id: GET /{id}, and POST /{id}/versions as far as the
\* lookup of the document.
NextLifecycle ==
    \/ Next
    \/ /\ pc = "idle"
       /\ response.status = 201
       /\ GetResume(outcome.resume.id)
    \/ /\ pc = "idle"
       /\ response.status = 201
       /\ \E j \in JobDescriptions : CreateVersionRequest(outcome.resume.id, j)
    \/ LoadResume
    \/ Rollback

SpecLifecycle == Init /\ [][NextLifecycle]_vars

\* ---------------------------------------------------------------- SpecCalls
\* Uploads of a readable PDF and version creations for a stored document,
\* one request at a time in any order, each Gateway call raising, returning
\* a value of the wrong shape, or returning a usable reply.
NextCalls ==
    \/ /\ v_pc = "idle"
       /\ Upload([filename |-> FN_pdf, content_type |-> CT_pdf,
                  file_bytes |-> [format |-> "pdf", text |-> "Experience:\n- Dev"]])
    \/ SaveFileOk
    \/ ExtractText
    \/ \E g \in { Raised(e) : e \in GatewayErrors }
                \cup { Returned(JNull), Returned(JDict([sections |-> JList(<<>>)])) } :
          ParseAndReturn(g)
    \/ /\ pc = "idle"
       /\ \E r \in {1, 3}, j \in JobDescriptions : CreateVersionRequest(r, j)
    \/ LoadResume
    \/ \E g \in { Raised(e) : e \in GatewayErrors }
                \cup { Returned(JNull), Returned(JDict([invalid |-> JStr("structure")])),
                       Returned(JDict([sections |-> JList(<<JDict([content |-> ContentValue])>>)])) } :
          SectionsCall(g)
    \/ \E g \in CoverLetterOutcomes : CoverLetterCall(g)
    \/ \E inserted \in BOOLEAN : FlushVersion(inserted)
    \/ AddSections
    \/ \E inserted \in 0..MaxVersionSections : FlushSections(inserted)
    \/ Commit
    \/ Rollback

SpecCalls == Init /\ [][NextCalls]_vars

\* ---------------------------------------------------------------- SpecClean
\* GeminiClient.generate_json on one reply text of the backend.
InitClean ==
    /\ s_text \in ReplyTexts
    /\ s_result = Pending
    /\ ParseIdle /\ IngestIdle /\ VersionIdle /\ GatewayIdle /\ StorageIdle

CallGenerateJson ==
    /\ s_result = Pending
    /\ s_result' = generate_json(s_text)
    /\ UNCHANGED s_text
    /\ UNCHANGED <<parse_vars, ingest_vars, version_vars, gateway_vars, storage_vars>>

NextClean == CallGenerateJson

SpecClean == InitClean /\ [][NextClean]_vars

\* -------------------------------------------------------------- SpecGateway
\* The process starts with some environment, builds its Settings, a request
\* builds the client, and one generate_json call is made on it.  The backend
\* replies with a text, fails, or stays silent while time passes.
InitGateway ==
    /\ g_env \in Environments
    /\ g_pc = "boot"
    /\ g_settings = Pending
    /\ g_client = Pending
    /\ g_elapsed = 0
    /\ g_result = Pending
    /\ ParseIdle /\ IngestIdle /\ VersionIdle /\ CleanIdle /\ StorageIdle

\* `settings = Settings()` at import: an invalid provider aborts the start.
ImportSettings ==
    /\ g_pc = "boot"
    /\ g_settings' = Settings(g_env)
    /\ g_pc' = IF g_settings'.ok THEN "started" ELSE "aborted"
    /\ UNCHANGED <<g_env, g_client, g_elapsed, g_result>>
    /\ UNCHANGED <<parse_vars, ingest_vars, version_vars, clean_vars, storage_vars>>

\* get_resume_service calls create_llm_client for the request.
CreateClient ==
    /\ g_pc = "started"
    /\ g_client' = create_llm_client(g_settings.value)
    /\ g_pc' = IF g_client'.ok THEN "ready" ELSE "failed"
    /\ UNCHANGED <<g_env, g_settings, g_elapsed, g_result>>
    /\ UNCHANGED <<parse_vars, ingest_vars, version_vars, clean_vars, storage_vars>>

\* generate_json is called: OpenAIClient raises at once, GeminiClient calls
\* generate_content(model, contents) and waits for it.
GenerateJsonBegin ==
    /\ g_pc = "ready"
    /\ IF g_client.value.class = "OpenAIClient"
       THEN g_result' = Raised("NotImplementedError") /\ g_pc' = "done"
       ELSE g_pc' = "waiting" /\ UNCHANGED g_result
    /\ UNCHANGED <<g_env, g_settings, g_client, g_elapsed>>
    /\ UNCHANGED <<parse_vars, ingest_vars, version_vars, clean_vars, storage_vars>>

\* generate_content returns a reply; generate_json cleans and decodes it.
BackendReplies(text) ==
    /\ g_pc = "waiting"
    /\ g_result' = generate_json(text)
    /\ g_pc' = "done"
    /\ UNCHANGED <<g_env, g_settings, g_client, g_elapsed>>
    /\ UNCHANGED <<parse_vars, ingest_vars, version_vars, clean_vars, storage_vars>>

\* generate_content raises; generate_json lets the error through.
BackendRaises ==
    /\ g_pc = "waiting"
    /\ g_result' = Raised("APIError")
    /\ g_pc' = "done"
    /\ UNCHANGED <<g_env, g_settings, g_client, g_elapsed>>
    /\ UNCHANGED <<parse_vars, ingest_vars, version_vars, clean_vars, storage_vars>>

\* Time passes while generate_content has not come back.
Tick ==
    /\ g_pc = "waiting"
    /\ g_elapsed < MaxWait
    /\ g_elapsed' = g_elapsed + 1
    /\ UNCHANGED <<g_env, g_pc, g_settings, g_client, g_result>>
    /\ UNCHANGED <<parse_vars, ingest_vars, version_vars, clean_vars, storage_vars>>

NextGateway ==
    \/ ImportSettings
    \/ CreateClient
    \/ GenerateJsonBegin
    \/ \E text \in JsonTexts \cup { <<"n", "o">> } : BackendReplies(text)
    \/ BackendRaises
    \/ Tick

SpecGateway == InitGateway /\ [][NextGateway]_vars

\* The steps of the program are taken when they can be, and time passes; the
\* backend is under no obligation to answer.
FairSpecGateway ==
    /\ SpecGateway
    /\ WF_vars(ImportSettings)
    /\ WF_vars(CreateClient)
    /\ WF_vars(GenerateJsonBegin)
    /\ WF_vars(Tick)

\* -------------------------------------------------------------- SpecStorage
\* IngestionService.save_file called any number of times on one event loop:
\* a call runs from one await to the next, and other calls run in between.
\* st_files is a function from paths to the bytes stored under them.
InitStorage ==
    /\ st_saves = <<>>
    /\ st_files = <<>>
    /\ ParseIdle /\ IngestIdle /\ VersionIdle /\ CleanIdle /\ GatewayIdle

\* IngestionService.__init__(storage_base_dir)
base_dir == <<"storage", "resumes">>

\* str(uuid.uuid4()) of the n-th call: no two calls receive the same text.
uuid4(n) == <<"u1", "u2", "u3", "u4">>[n]

\* The file system after `data` has been stored under `path`.
write_file(files, path, data) ==
    [q \in DOMAIN files \cup {path} |-> IF q = path THEN data ELSE files[q]]

\* A call begins and runs up to `aiofiles.open(target_path, "wb")`.
SaveFileCall(data, filename) ==
    /\ Len(st_saves) < MaxSaves
    /\ st_saves' = Append(st_saves,
                          [data |-> data, filename |-> filename, at |-> "open",
                           target_path |-> target_path(base_dir, uuid4(Len(st_saves) + 1),
                                                       filename)])
    /\ UNCHANGED st_files
    /\ UNCHANGED <<parse_vars, ingest_vars, version_vars, clean_vars, gateway_vars>>

\* The open completes: the target exists and is empty.
SaveFileOpen(i) ==
    /\ st_saves[i].at = "open"
    /\ st_files' = write_file(st_files, st_saves[i].target_path, "")
    /\ st_saves' = [st_saves EXCEPT ![i].at = "write"]
    /\ UNCHANGED <<parse_vars, ingest_vars, version_vars, clean_vars, gateway_vars>>

\* `await f.write(data)` completes.
SaveFileWrite(i) ==
    /\ st_saves[i].at = "write"
    /\ st_files' = write_file(st_files, st_saves[i].target_path, st_saves[i].data)
    /\ st_saves' = [st_saves EXCEPT ![i].at = "close"]
    /\ UNCHANGED <<parse_vars, ingest_vars, version_vars, clean_vars, gateway_vars>>

\* The file is closed and str(target_path) is returned.
SaveFileReturn(i) ==
    /\ st_saves[i].at = "close"
    /\ st_saves' = [st_saves EXCEPT ![i].at = "returned"]
    /\ UNCHANGED st_files
    /\ UNCHANGED <<parse_vars, ingest_vars, version_vars, clean_vars, gateway_vars>>

\* The open or the write fails: the error is logged and raised again.
SaveFileRaise(i) ==
    /\ st_saves[i].at \in {"open", "write"}
    /\ st_saves' = [st_saves EXCEPT ![i].at = "raised"]
    /\ UNCHANGED st_files
    /\ UNCHANGED <<parse_vars, ingest_vars, version_vars, clean_vars, gateway_vars>>

NextStorage ==
    \/ \E data \in {"%PDF-A", "%PDF-B"},
          filename \in {FN_pdf, <<".", ".", "/">> \o FN_PDF, FN_noext} :
            SaveFileCall(data, filename)
    \/ \E i \in DOMAIN st_saves :
          \/ SaveFileOpen(i)
          \/ SaveFileWrite(i)
          \/ SaveFileReturn(i)
          \/ SaveFileRaise(i)

SpecStorage == InitStorage /\ [][NextStorage]_vars

\* ================================================================== claims
\* ------------------------------------------------ ingest claims, under Spec
\* The request of the current state has run to its end.
RequestDone == requests > 0 /\ pc = "idle"

\* The upload names a supported format and its payload is readable by the
\* extractor that format selects.
SupportedAndReadable(f) ==
    \/ f.filename \in {FN_pdf, FN_PDF} /\ f.file_bytes.format = "pdf"
    \/ f.filename = FN_docx /\ f.file_bytes.format = "docx"
    \/ /\ f.filename \in {FN_txt, FN_noext, FN_none}
       /\ \/ f.content_type = CT_pdf /\ f.file_bytes.format = "pdf"
          \/ f.content_type = CT_docx /\ f.file_bytes.format = "docx"

\* The upload names a supported format but the payload is not readable by the
\* extractor that format selects.
SupportedButUnreadable(f) ==
    \/ f.filename \in {FN_pdf, FN_PDF} /\ f.file_bytes.format # "pdf"
    \/ f.filename = FN_docx /\ f.file_bytes.format # "docx"
    \/ /\ f.filename \in {FN_txt, FN_noext, FN_none}
       /\ \/ f.content_type = CT_pdf /\ f.file_bytes.format # "pdf"
          \/ f.content_type = CT_docx /\ f.file_bytes.format # "docx"

\* Neither the extension nor the content type names a supported format.
UnsupportedUpload(f) ==
    /\ f.filename \in {FN_txt, FN_noext, FN_none}
    /\ f.content_type \in {CT_text, CT_none}

\* The file of this request is on disk, whole, under the returned locator.
FileOnDisk ==
    /\ saved_path.file_id \in 1..Len(disk)
    /\ disk[saved_path.file_id] = upload.file_bytes

\* C1: once the file is saved and its text extracted, ingest always returns a
\* document: when parse raised (Gateway, decode or mapping error) parsed_data
\* is None and there is exactly one warning, and the file was on disk before
\* parse began; when parse returned, parsed_data is its result and there is no
\* warning.
C1_ParseFailureDowngraded ==
    (RequestDone /\ save_status = "ok" /\ SupportedAndReadable(upload)) =>
        /\ calls.parse = 1
        /\ outcome.kind = "returned"
        /\ saved_at_parse
        /\ IF parse_result.ok
           THEN /\ outcome.resume.parsed_data = parse_result.value
                /\ outcome.warnings = <<>>
           ELSE /\ outcome.resume.parsed_data = NoneValue
                /\ Len(outcome.warnings) = 1

C1_Witness ==
    /\ RequestDone /\ save_status = "ok" /\ SupportedAndReadable(upload)
    /\ parse_result = Raised("APIError")
    /\ outcome.kind = "returned"
    /\ outcome.resume.parsed_data = NoneValue
    /\ Len(outcome.warnings) = 1
    /\ FileOnDisk

\* C2: an upload whose extension and content type are both unsupported ends
\* in HTTPException(400), answered as HTTP 400 with no document; parse and the
\* Gateway are never invoked, and the file is on disk all the same.
C2_UnsupportedFormatIs400 ==
    (RequestDone /\ save_status = "ok" /\ UnsupportedUpload(upload)) =>
        /\ outcome = HTTPException(400)
        /\ response.status = 400
        /\ calls.parse = 0
        /\ calls.generate_json = 0
        /\ FileOnDisk

C2_Witness ==
    /\ RequestDone /\ save_status = "ok"
    /\ upload.filename = FN_txt /\ upload.content_type = CT_text
    /\ outcome = HTTPException(400)
    /\ calls.extract_text = 1
    /\ FileOnDisk

\* C3: when save_file fails the request ends at once with that failure: no
\* document, no warnings, and neither extract_text nor parse is called.
C3_SaveFailurePropagates ==
    (save_status = "failed") =>
        /\ pc = "idle"
        /\ outcome = Propagated("OSError")
        /\ response.status # 201
        /\ response.warnings = <<>>
        /\ calls.extract_text = 0
        /\ calls.parse = 0

C3_Witness ==
    /\ RequestDone /\ save_status = "failed"
    /\ outcome = Propagated("OSError")
    /\ calls.save_file = 1

\* C4: an upload of a supported format whose payload the extractor cannot read
\* is downgraded like a parse failure: a document with parsed_data None and
\* one warning is returned.
C4_ExtractionFailureDowngraded ==
    (RequestDone /\ save_status = "ok" /\ SupportedButUnreadable(upload)) =>
        /\ outcome.kind = "returned"
        /\ outcome.resume.parsed_data = NoneValue
        /\ Len(outcome.warnings) = 1

\* The format the extension of the upload names, if it names one.
FormatByExtension(f) ==
    IF f.filename \in {FN_pdf, FN_PDF} THEN "pdf"
    ELSE IF f.filename = FN_docx THEN "docx"
    ELSE "none"

\* The format the content type of the upload names, if it names one.
FormatByContentType(f) ==
    IF f.content_type = CT_pdf THEN "pdf"
    ELSE IF f.content_type = CT_docx THEN "docx"
    ELSE "none"

\* extract_text of this request returned a text.
ExtractionReturned == pc = "extracted" \/ calls.parse = 1

\* What this request shows when the named extractor ran on the payload: its
\* text when the payload has the extractor's format, its own error otherwise.
ExtractorRan(format, error) ==
    IF upload.file_bytes.format = format
    THEN ExtractionReturned /\ raw_text = upload.file_bytes.text
    ELSE ~ExtractionReturned /\ outcome = Propagated(error)

\* C22: the extractor is chosen by the lower-cased extension of the file name
\* (.pdf, .docx) whatever the content type says; the content type decides
\* only when the extension names neither format; when neither names a format
\* the request ends with UnsupportedFileFormatError (HTTP 400) and no
\* extractor has run.
C22_ExtensionBeforeContentType ==
    (calls.extract_text = 1) =>
        LET chosen == IF FormatByExtension(upload) # "none"
                      THEN FormatByExtension(upload)
                      ELSE FormatByContentType(upload)
        IN CASE chosen = "pdf" -> ExtractorRan("pdf", "PdfReadError")
             [] chosen = "docx" -> ExtractorRan("docx", "PackageNotFoundError")
             [] OTHER -> ~ExtractionReturned /\ outcome = HTTPException(400)

\* An upload named CV.PDF with the content type of a .docx file and a PDF
\* payload has been read by the PDF extractor.
C22_Witness ==
    /\ calls.extract_text = 1
    /\ upload.filename = FN_PDF
    /\ upload.content_type = CT_docx
    /\ upload.file_bytes.format = "pdf"
    /\ pc = "extracted"
    /\ raw_text = upload.file_bytes.text

\* ------------------------------------------- parse claims, under SpecParse
ParseDone == p_result # Pending

\* The Gateway returned an object whose `sections` is an array.
SectionsIsList ==
    /\ p_gateway.ok
    /\ IsDict(p_gateway.value)
    /\ HasKey(p_gateway.value, "sections")
    /\ IsList(p_gateway.value.fields["sections"])

ReplyItems == p_gateway.value.fields["sections"].items
ReplyDicts == SelectSeq(ReplyItems, IsDict)

\* C5: when `sections` is an array of N objects, parse returns N sections, the
\* i-th built from the i-th element, with orders 0..N-1.
C5_OrderPreservation ==
    (ParseDone /\ SectionsIsList /\ \A i \in 1..Len(ReplyItems) : IsDict(ReplyItems[i])) =>
        /\ p_result.ok
        /\ Len(p_result.value.sections) = Len(ReplyItems)
        /\ \A i \in 1..Len(ReplyItems) :
              /\ p_result.value.sections[i].order = i - 1
              /\ p_result.value.sections[i].title = DictGet(ReplyItems[i], "title", JNull)

C5_Witness ==
    /\ ParseDone /\ SectionsIsList
    /\ Len(ReplyItems) = 3
    /\ \A i \in 1..3 : IsDict(ReplyItems[i])
    /\ p_result.ok
    /\ Len(p_result.value.sections) = 3
    /\ p_result.value.sections[3].order = 2

\* C6: when `sections` is an array mixing objects and other values, parse
\* raises nothing and returns one section per object, in the same relative
\* order, each with the array index of its object as order.
C6_LenientSkip ==
    (ParseDone /\ SectionsIsList) =>
        /\ p_result.ok
        /\ Len(p_result.value.sections)
             = Cardinality({i \in 1..Len(ReplyItems) : IsDict(ReplyItems[i])})
        /\ \A j \in 1..Len(p_result.value.sections) :
              LET sec == p_result.value.sections[j]
              IN /\ sec.order + 1 \in 1..Len(ReplyItems)
                 /\ IsDict(ReplyItems[sec.order + 1])
                 /\ sec.title = DictGet(ReplyItems[sec.order + 1], "title", JNull)
                 /\ j > 1 => p_result.value.sections[j - 1].order < sec.order

C6_Witness ==
    /\ ParseDone /\ SectionsIsList
    /\ Len(ReplyItems) = 3
    /\ IsDict(ReplyItems[1]) /\ ReplyItems[2] = JStr("garbage") /\ IsDict(ReplyItems[3])
    /\ p_result.ok
    /\ Len(p_result.value.sections) = 2
    /\ p_result.value.sections[2].order = 2

\* C7: the j-th section carries the title, content and raw_content of the
\* j-th object of the array unchanged, and null for each key the object
\* lacks; an object lacking keys still yields its section.
C7_FieldsVerbatim ==
    (ParseDone /\ SectionsIsList) =>
        /\ p_result.ok
        /\ Len(p_result.value.sections) = Len(ReplyDicts)
        /\ \A j \in 1..Len(ReplyDicts) : \A k \in ItemKeys :
              p_result.value.sections[j][k]
                = IF k \in DOMAIN ReplyDicts[j].fields THEN ReplyDicts[j].fields[k] ELSE JNull

C7_Witness ==
    /\ ParseDone /\ SectionsIsList /\ p_result.ok
    /\ \E j \in 1..Len(ReplyDicts) :
          /\ "title" \notin DOMAIN ReplyDicts[j].fields
          /\ "content" \notin DOMAIN ReplyDicts[j].fields
          /\ p_result.value.sections[j].title = JNull
          /\ p_result.value.sections[j].content = JNull
          /\ p_result.value.sections[j].raw_content = RawContentValue

\* C8: when the reply is an object whose `sections` is absent or is not an
\* array, parse returns a document with zero sections.
C8_MalformedSectionsDegrade ==
    (/\ ParseDone /\ p_gateway.ok /\ IsDict(p_gateway.value)
     /\ (HasKey(p_gateway.value, "sections") => ~IsList(p_gateway.value.fields["sections"]))) =>
        /\ p_result.ok
        /\ p_result.value.sections = <<>>

\* C9: when the reply is not an object at top level, parse raises and returns
\* no document.
C9_NonObjectReplyFails ==
    (ParseDone /\ p_gateway.ok /\ ~IsDict(p_gateway.value)) => ~p_result.ok

C9_Witness ==
    /\ ParseDone /\ p_gateway.ok
    /\ p_gateway.value.kind = "list"
    /\ ~p_result.ok
    /\ p_result.exc = "AttributeError"

\* C10: a document returned by parse has the input text as raw_text and the
\* whole reply of the Gateway, other keys and skipped items included, in meta.
C10_RawTextAndMeta ==
    (ParseDone /\ p_result.ok) =>
        /\ p_result.value.raw_text = p_raw_text
        /\ p_result.value.meta = [llm_raw |-> p_gateway.value]

C10_Witness ==
    /\ ParseDone /\ p_result.ok /\ SectionsIsList
    /\ p_raw_text = "Experience:\n- Dev"
    /\ HasKey(p_gateway.value, "language")
    /\ \E i \in 1..Len(ReplyItems) : ~IsDict(ReplyItems[i])
    /\ p_result.value.meta.llm_raw = p_gateway.value

\* ------------------------------------- customization claims, under SpecVersion
\* The version-creation request of the current state has been answered.
VersionRequestDone == v_requests > 0 /\ v_pc = "idle"

\* The request names a stored document whose section list is empty.
EmptyDocumentTarget ==
    /\ v_requests > 0
    /\ v_resume_id \in DOMAIN db_resumes
    /\ Len(db_resumes[v_resume_id].sections) = 0

\* The request names an identifier that is not in the resumes table.
AbsentDocumentTarget == v_requests > 0 /\ v_resume_id \notin DOMAIN db_resumes

\* Version rows, committed or not, that belong to resume_id.
VersionsOf(table, resume_id) ==
    { i \in 1..Len(table.versions) : table.versions[i].resume_id = resume_id }

\* C11: createVersion against a stored document with an empty section list
\* answers HTTP 400; at no point of the request is the Gateway called or a
\* version row written, and no version of that document is ever committed.
C11_EmptyDocumentIs400 ==
    EmptyDocumentTarget =>
        /\ v_llm_calls = <<>>
        /\ db_tx = NoRows /\ db_session_new = <<>>
        /\ VersionsOf(db_committed, v_resume_id) = {}
        /\ v_outcome \in {NoOutcome, HTTPException(400)}
        /\ (v_pc = "idle" => v_response.status = 400)

C11_Witness ==
    /\ EmptyDocumentTarget
    /\ v_pc = "idle"
    /\ v_response.status = 400

\* C12: createVersion, getById and getVersionById for an identifier absent
\* from persistence end in HTTPException 404, which reaches the caller as
\* status 404; createVersion makes no Gateway call in that case.
C12_NotFoundIs404 ==
    /\ AbsentDocumentTarget =>
          /\ v_llm_calls = <<>>
          /\ v_outcome \in {NoOutcome, HTTPException(404)}
          /\ (v_pc = "idle" => v_response.status = 404)
    /\ (reader_outcome.op = "get_resume" /\ reader_outcome.id \notin DOMAIN db_resumes) =>
          /\ reader_outcome.result = HTTPException(404)
          /\ reader_outcome.response.status = 404
    /\ (/\ reader_outcome.op = "get_version"
        /\ \A i \in 1..Len(db_committed.versions) :
               db_committed.versions[i].id # reader_outcome.id) =>
          /\ reader_outcome.result = HTTPException(404)
          /\ reader_outcome.response.status = 404

C12_Witness ==
    /\ AbsentDocumentTarget
    /\ v_pc = "idle"
    /\ v_response.status = 404
    /\ reader_outcome.op = "get_version"
    /\ reader_outcome.response.status = 404

\* The first Gateway call returned an object with a `sections` key.
SectionsCallSucceeded ==
    /\ Len(v_llm_calls) >= 1
    /\ v_llm_calls[1].outcome.ok
    /\ IsDict(v_llm_calls[1].outcome.value)
    /\ HasKey(v_llm_calls[1].outcome.value, "sections")

\* The second Gateway call raised, or returned a non-object, or an object
\* without a `cover_letter` key.
CoverLetterCallFailed ==
    /\ Len(v_llm_calls) >= 2
    /\ \/ ~v_llm_calls[2].outcome.ok
       \/ ~IsDict(v_llm_calls[2].outcome.value)
       \/ ~HasKey(v_llm_calls[2].outcome.value, "cover_letter")

\* The request ended because the database refused an INSERT.
DatabaseFailed ==
    /\ v_outcome.kind = "raised"
    /\ v_outcome.status = 500
    /\ "cause" \in DOMAIN v_outcome
    /\ v_outcome.cause = "SQLAlchemyError"

\* The committed rows of the version this request built are the items of
\* `items`, one row per item, in array order.
CommittedWithItems(items) ==
    /\ \E i \in 1..Len(db_committed.versions) : db_committed.versions[i] = v_version
    /\ LET rows == rows_of(db_committed.sections, v_version.id)
       IN /\ Len(rows) = Len(items)
          /\ \A i \in 1..Len(rows) :
                /\ rows[i].title = DictGet(items[i], "title", JNull)
                /\ rows[i].content = DictGet(items[i], "content", JNull)
                /\ rows[i].raw_content = DictGet(items[i], "raw_content", JNull)

\* C13: when the sections call succeeds and the cover-letter call fails in
\* any way (Gateway error, non-object, missing key), and the database accepts
\* the rows, the request is answered 201 and a version is committed with the
\* customized sections (the object items of the array) and a null
\* cover_letter.
C13_CoverLetterBestEffort ==
    (VersionRequestDone /\ SectionsCallSucceeded /\ CoverLetterCallFailed /\ ~DatabaseFailed) =>
        /\ v_response.status = 201
        /\ v_outcome.kind = "returned"
        /\ v_version.cover_letter = JNull
        /\ CommittedWithItems(SelectSeq(v_custom_sections, IsDict))

\* The first Gateway call raised, or returned a non-object, or an object
\* without a `sections` key.
SectionsCallFailed == Len(v_llm_calls) >= 1 /\ ~SectionsCallSucceeded

\* C14: when the sections call raises, or returns a non-object, or an object
\* without a `sections` key, the request ends in HTTP 500 right there: no
\* second Gateway call, no version built, nothing written, nothing returned.
C14_SectionsFailureIs500 ==
    SectionsCallFailed =>
        /\ v_pc \in {"raised", "idle"}
        /\ Len(v_llm_calls) = 1
        /\ v_outcome.kind = "raised" /\ v_outcome.status = 500
        /\ v_version = NoVersion
        /\ db_tx = NoRows /\ db_session_new = <<>>
        /\ (v_pc = "idle" => v_response.status = 500 /\ v_response.sections = <<>>)

C14_Witness ==
    /\ SectionsCallFailed
    /\ v_llm_calls[1].outcome.ok
    /\ IsDict(v_llm_calls[1].outcome.value)
    /\ v_pc = "idle"
    /\ v_response.status = 500

\* The `sections` array of the first reply holds objects and non-objects.
MixedSectionsArray ==
    /\ SectionsCallSucceeded
    /\ IsList(v_llm_calls[1].outcome.value.fields["sections"])
    /\ LET items == v_llm_calls[1].outcome.value.fields["sections"].items
       IN /\ \E i \in 1..Len(items) : IsDict(items[i])
          /\ \E i \in 1..Len(items) : ~IsDict(items[i])

\* C15: a `sections` array mixing objects with non-objects is handled
\* leniently: the request is answered 201 and the object items, in their
\* relative order, are the committed sections of the version.
C15_MixedArrayLenient ==
    (VersionRequestDone /\ MixedSectionsArray /\ ~DatabaseFailed) =>
        /\ v_response.status = 201
        /\ CommittedWithItems(SelectSeq(v_custom_sections, IsDict))

\* C16: every committed section of a version carries as order its zero-based
\* index in the `sections` array, whatever "order" the item itself held.
C16_OrderIsArrayIndex ==
    \A i \in 1..Len(db_committed.sections) :
        db_committed.sections[i].order = JNum(db_committed.sections[i].idx)

\* C17: every committed version has at least one section, and every 201
\* answer carries at least one section.
C17_NoEmptyVersion ==
    /\ \A i \in 1..Len(db_committed.versions) :
          Len(rows_of(db_committed.sections, db_committed.versions[i].id)) >= 1
    /\ (VersionRequestDone /\ v_response.status = 201) => Len(v_response.sections) >= 1

\* The length of the list create_version was given for version_id.
ItemsOf(version_id) ==
    LET b == CHOOSE b \in { db_committed.built_from[i] : i \in 1..Len(db_committed.built_from) } :
                 b.version_id = version_id
    IN b.items

\* C18: in every state, hence whenever another request reads the tables, each
\* committed version row has exactly the section rows of the customization
\* that built it, one per item and in array order, and no committed section
\* row lacks its version row.
C18_VersionCommittedWithSections ==
    /\ \A i \in 1..Len(db_committed.versions) :
          LET id == db_committed.versions[i].id
              rows == rows_of(db_committed.sections, id)
          IN /\ Len(rows) = ItemsOf(id)
             /\ \A k \in 1..Len(rows) : rows[k].idx = k - 1
    /\ \A i \in 1..Len(db_committed.sections) :
          \E k \in 1..Len(db_committed.versions) :
              db_committed.versions[k].id = db_committed.sections[i].version_id

\* A section INSERT failed midway: the session holds the version row and
\* part of its sections, and none of it is committed.
C18_Witness ==
    /\ v_pc = "raised"
    /\ Len(db_tx.versions) = 1
    /\ Len(db_tx.sections) >= 1
    /\ Len(db_session_new) >= 1
    /\ db_committed = NoRows

\* ------------------------------------------- sanitizer claims, under SpecClean
\* C19: for every reply text that is valid JSON as it stands, the sanitizer
\* hands on that text with only the surrounding whitespace trimmed, and
\* generate_json returns the value the reply text decodes to.
C19_ValidJsonUntouched ==
    (s_result # Pending /\ json_loads(s_text).ok) =>
        /\ s_result.cleaned = Strip(s_text, Whitespace)
        /\ s_result.ok
        /\ s_result.value = json_loads(s_text).value

\* C20: for every JSON object text J, a reply that is J inside a fenced code
\* block (with no tag, or a tag of any name), inside single backticks, or
\* inside one pair of matching quotes is cleaned to J.
C20_WrappedObjectUnwrapped ==
    \A J \in ObjectTexts :
        (s_result # Pending /\ s_text \in Wrappings(J)) => s_result.cleaned = J

\* C21: when the cleaned text cannot be decoded, generate_json returns no
\* value and raises an LLMInvalidResponseError that carries the cleaned text
\* and the decode error.
C21_DecodeFailureIsInvalidResponse ==
    (s_result # Pending /\ ~json_loads(clean_json_response(s_text)).ok) =>
        /\ ~s_result.ok
        /\ s_result.exc = "LLMInvalidResponseError"
        /\ s_result.message.cleaned = clean_json_response(s_text)
        /\ s_result.message.error = "JSONDecodeError"

\* ------------------------------------------- Gateway claims, under SpecGateway
\* C23: with the provider openai, creating the client fails when no API key
\* is configured; when a key is configured a client is created, and a
\* generate_json call on it raises NotImplementedError.
C23_PlaceholderBackend ==
    (g_pc \in {"ready", "failed", "waiting", "done"}
        /\ g_settings.value.LLM_PROVIDER = "openai") =>
        IF g_env.OPENAI_API_KEY \in {Unset, ""}
        THEN g_pc = "failed" /\ ~g_client.ok
        ELSE /\ g_client.ok
             /\ g_pc # "waiting"
             /\ g_pc = "done" => g_result = Raised("NotImplementedError")

\* C24: every generate_json call that waits for the backend comes to an end,
\* by a reply, an error or the timeout, even when the backend never answers.
C24_CallEndsByTimeout == (g_pc = "waiting") ~> (g_pc = "done")

\* ------------------------------------------- storage claims, under SpecStorage
\* The calls that have returned a locator.
ReturnedSaves == { i \in DOMAIN st_saves : st_saves[i].at = "returned" }

\* The path names a file directly inside the base directory.
DirectlyInsideBaseDir(path) ==
    /\ Len(path) = Len(base_dir) + 1
    /\ SubSeq(path, 1, Len(base_dir)) = base_dir
    /\ path[Len(path)] \notin { <<>>, <<".">>, <<".", ".">> }

\* C25: however save_file calls are interleaved, and whatever names they are
\* given, every returned locator is a file directly inside the base
\* directory, holds exactly the bytes of the call that returned it, and no
\* two calls return the same locator.
C25_SavesNeverCollide ==
    \A i \in ReturnedSaves :
        /\ DirectlyInsideBaseDir(st_saves[i].target_path)
        /\ st_saves[i].target_path \in DOMAIN st_files
        /\ st_files[st_saves[i].target_path] = st_saves[i].data
        /\ \A j \in ReturnedSaves : j # i => st_saves[j].target_path # st_saves[i].target_path

\* Two calls given the same name ../CV.PDF and different bytes have both
\* returned, and each locator holds the bytes of its own call.
C25_Witness ==
    /\ ReturnedSaves = {1, 2}
    /\ st_saves[1].filename = <<".", ".", "/">> \o FN_PDF
    /\ st_saves[2].filename = st_saves[1].filename
    /\ st_saves[1].data # st_saves[2].data
    /\ st_files[st_saves[1].target_path] = st_saves[1].data
    /\ st_files[st_saves[2].target_path] = st_saves[2].data

\* ------------------------------------ the 201 answer, under SpecVersion
\* C26: the 201 answer of a version creation carries the sections and the
\* cover letter of the version it created: its cover_letter is the one
\* committed for that version, and the one a later GET of the version shows.
C26_CreatedVersionCarriesCoverLetter ==
    (v_response.status = 201) =>
        /\ \E i \in 1..Len(db_committed.versions) :
              /\ db_committed.versions[i].id = v_response.id
              /\ db_committed.versions[i].cover_letter = v_response.cover_letter
        /\ Len(v_response.sections) = Len(rows_of(db_committed.sections, v_response.id))
        /\ (/\ reader_outcome.op = "get_version"
            /\ reader_outcome.id = v_response.id
            /\ reader_outcome.response.status = 200)
              => reader_outcome.response.cover_letter = v_response.cover_letter

\* ------------------------------------------- lifecycle claim, under SpecLifecycle
\* C27: once an upload has been answered with 201 and an id, a GET of that id
\* finds the document with the sections of the answer in the same order, and
\* a version request for that id does not end in not-found.
C27_UploadIsPersisted ==
    (pc = "idle" /\ response.status = 201) =>
        /\ (reader_outcome.op = "get_resume" /\ reader_outcome.id = outcome.resume.id) =>
              /\ reader_outcome.response.status = 200
              /\ reader_outcome.response.sections = response.sections
        /\ (v_resume_id = outcome.resume.id /\ v_outcome.kind = "raised") =>
              v_outcome.status # 404

\* ------------------------------------------- Gateway calls, under SpecCalls
\* C28: no request repeats a Gateway call.  An upload makes at most one, and
\* when that call raises, parse raises the same error.  A version creation
\* makes at most two: the sections call first, and the cover-letter call only
\* after the sections reply was an object with a `sections` key.
C28_NoGatewayCallRepeated ==
    /\ calls.generate_json <= 1
    /\ Len(calls.llm) = calls.generate_json
    /\ \A i \in DOMAIN calls.llm :
          ~calls.llm[i].ok => parse_result = Raised(calls.llm[i].exc)
    /\ Len(v_llm_calls) <= 2
    /\ Len(v_llm_calls) >= 1 => v_llm_calls[1].task = "customize"
    /\ Len(v_llm_calls) = 2 =>
          /\ v_llm_calls[2].task = "cover_letter"
          /\ SectionsCallSucceeded

\* An upload whose only Gateway call raised, and a version creation whose
\* sections call raised and was the last call of its request.
C28_Witness ==
    /\ calls.llm = <<Raised("APIError")>>
    /\ parse_result = Raised("APIError")
    /\ v_pc = "idle"
    /\ v_llm_calls = <<[task |-> "customize", outcome |-> Raised("APIError")]>>
    /\ v_response.status = 500

\* ------------------------------- version claims, continued, under SpecVersion
\* The request names a stored document that has sections.
NonEmptyDocumentTarget ==
    /\ v_requests > 0
    /\ v_resume_id \in DOMAIN db_resumes
    /\ Len(db_resumes[v_resume_id].sections) > 0

\* The body of a section: its content when there is one, else its raw_content.
BodyOf(section) == IF section.content.kind = "str" THEN section.content ELSE section.raw_content

\* The blocks of sections i.. as the flattening is described: title, newline
\* and body, or the body alone, with a blank line between two blocks.
RECURSIVE BlocksFrom(_, _)
BlocksFrom(sections, i) ==
    IF i > Len(sections) THEN <<>>
    ELSE (IF i = 1 THEN <<>> ELSE <<"\n\n">>)
         \o (IF sections[i].title.kind = "str"
             THEN <<sections[i].title.s, "\n", BodyOf(sections[i]).s>>
             ELSE <<BodyOf(sections[i]).s>>)
         \o BlocksFrom(sections, i + 1)

\* C29: for a stored document with sections, any of whose title, content and
\* raw_content may be NULL, the flattening succeeds, gives one block per
\* section joined by blank lines wherever the bodies are texts, and the
\* request reaches the sections call of the Gateway.
C29_FlatteningAcceptsNulls ==
    (NonEmptyDocumentTarget /\ v_pc # "lookup") =>
        LET sections == db_resumes[v_resume_id].sections
            text == flatten_resume(sections)
        IN /\ text.ok
           /\ (\A i \in DOMAIN sections : BodyOf(sections[i]).kind = "str")
                 => text.value = BlocksFrom(sections, 1)
           /\ v_pc = "sections_call" \/ Len(v_llm_calls) >= 1

\* What a step may do to the tables: the resumes with their section rows stay
\* as they are; the step that ends a request with 201 appends one version row
\* of the requested resume and section rows of that version only; every
\* other step, the end of a failed request included, leaves the version
\* tables as they are.
TablesStep ==
    /\ db_resumes' = db_resumes
    /\ IF v_pc # "idle" /\ v_pc' = "idle" /\ v_response'.status = 201
       THEN LET n == Len(db_committed.versions)
                k == Len(db_committed.sections)
            IN /\ Len(db_committed'.versions) = n + 1
               /\ SubSeq(db_committed'.versions, 1, n) = db_committed.versions
               /\ db_committed'.versions[n + 1].id = v_response'.id
               /\ db_committed'.versions[n + 1].resume_id = v_resume_id
               /\ SubSeq(db_committed'.sections, 1, k) = db_committed.sections
               /\ \A i \in (k + 1)..Len(db_committed'.sections) :
                     db_committed'.sections[i].version_id = v_response'.id
       ELSE db_committed' = db_committed

\* C30: creating a version never rewrites the base document: whatever the
\* outcome, the resume and its section rows are as before; a success adds
\* exactly one version with section rows of its own, a failure adds nothing.
C30_BaseDocumentNeverRewritten == [][TablesStep]_vars

\* A version of resume 1 has been committed with section rows of its own,
\* and the resumes are as stored.
C30_Witness ==
    /\ v_response.status = 201
    /\ v_resume_id = 1
    /\ Len(db_committed.versions) = 1
    /\ Len(rows_of(db_committed.sections, v_response.id)) >= 1
    /\ db_resumes = StoredResumes

====
